---- MODULE Spec2Model ----
(***************************************************************************)
(* Model of the blotter.rs sandbox layer: the stable-handle ObjectStore,   *)
(* the DenseStore with swap-remove renames, and the Sandbox net            *)
(* maintenance (add_component, add_wire, remove_wire, remove_component,    *)
(* building a sandbox from a file).                                        *)
(*                                                                         *)
(* Indices and addresses are 0-based as in the Rust code; a Vec is a       *)
(* TLA+ sequence, so the element at index i is s[i + 1].  Option<T> is a   *)
(* set with at most one element ({} is None).  A panic (a failed unwrap,   *)
(* assert or unreachable!) ends the run: the field `panicked` of the       *)
(* sandbox records which one failed and every later step is skipped.       *)
(***************************************************************************)
EXTENDS Integers, Sequences, FiniteSets, TLC

\* Bounds of the model.
MaxComponents == 3      \* entries of the component store
MaxWires == 3           \* entries of the wire store
MaxNets == 9            \* nets in the dense store (edit operations)
MaxFileBytes == 1       \* bytes of a file's WorldFormat circuit states
MaxEdits == 3           \* inserts of a load plus state-changing calls in one run (Spec)
MaxDeepEdits == 5       \* state-changing calls in one run (SpecDeep)

\* Program constants.
USIZE_MAX == 2147483647 \* stands for usize::MAX (no index of the model reaches it)
BitsPerByte == 8
I32_MAX == 2147483647   \* i32::MAX
V5_SAVE_VERSION == 5    \* v5::SAVE_VERSION
V6_SAVE_VERSION == 6    \* v6::SAVE_VERSION
F32_MANTISSA == 8388608 \* 2^23: an f32 has 23 bits of mantissa under 8 of exponent

VARIABLES
    root_components,    \* Sandbox.root_components: set of ComponentId
    components,         \* Sandbox.components: ObjectStore<ComponentInfo>
    wires,              \* Sandbox.wires: ObjectStore<WireInfo>
    nets,               \* Sandbox.nets: DenseStore<NetInfo> (its items)
    net_states,         \* Sandbox.net_states: BitVec
    panicked,           \* "" or the name of the unwrap/assert that failed
    loaded,             \* TRUE when the sandbox was built from a file
    edits,              \* number of calls so far that changed the sandbox
    codec,              \* a caller of the codec: its stream, the file read, the bytes written
    next_type,          \* Sandbox.next_type: u16
    component_types     \* Sandbox.component_types: HashMap<String, u16>

vars ==
    <<root_components, components, wires, nets, net_states, panicked, loaded, edits, codec,
      next_type, component_types>>

-----------------------------------------------------------------------------
\* Small helpers for Option and for iteration.

None == {}
Some(x) == {x}
Unwrap(opt) == CHOOSE x \in opt : TRUE

Min(S) == CHOOSE x \in S : \A y \in S : x <= y

\* Vec::remove(i) in place of swap_remove: the elements after i shift down
shift_remove(s, i) ==
    [k \in 1..(Len(s) - 1) |-> IF k <= i THEN s[k] ELSE s[k + 1]]

\* Vec::swap_remove(i): the last element takes the place of element i.
swap_remove(s, i) ==
    LET n == Len(s) IN
    IF i = n - 1 THEN SubSeq(s, 1, n - 1)
    ELSE [k \in 1..(n - 1) |-> IF k = i + 1 THEN s[n] ELSE s[k]]

-----------------------------------------------------------------------------
\* misc/object_store.rs

Vacant(next) == [tag |-> "Vacant", next_vacant |-> next]
Occupied(item) == [tag |-> "Occupied", item |-> item]

ObjectStore_new == [first_vacant |-> USIZE_MAX, entries |-> <<>>]

\* entries.get(address).and_then(Entry::get) is Some
ObjectStore_has(store, address) ==
    /\ address >= 0
    /\ address < Len(store.entries)
    /\ store.entries[address + 1].tag = "Occupied"

ObjectStore_get(store, address) ==
    IF ObjectStore_has(store, address)
    THEN Some(store.entries[address + 1].item)
    ELSE None

\* get_mut(address) followed by an assignment of the whole item
ObjectStore_set(store, address, item) ==
    [store EXCEPT !.entries[address + 1] = Occupied(item)]

\* Returns the new store, the address, and whether unreachable!() was hit.
ObjectStore_insert(store, item) ==
    IF store.first_vacant >= 0 /\ store.first_vacant < Len(store.entries)
    THEN LET replaced == store.entries[store.first_vacant + 1] IN
         IF replaced.tag = "Vacant"
         THEN [store |-> [first_vacant |-> replaced.next_vacant,
                          entries |-> [store.entries EXCEPT
                                         ![store.first_vacant + 1] = Occupied(item)]],
               address |-> store.first_vacant,
               unreachable |-> FALSE]
         ELSE [store |-> [store EXCEPT
                            !.entries[store.first_vacant + 1] = Occupied(item)],
               address |-> store.first_vacant,
               unreachable |-> TRUE]
    ELSE [store |-> [store EXCEPT !.entries = Append(@, Occupied(item))],
          address |-> Len(store.entries),
          unreachable |-> FALSE]

\* A remove that does not link the vacated entry to the earlier vacant ones
ObjectStore_remove_unlinked(store, address) ==
    IF ObjectStore_has(store, address)
    THEN [store |-> [first_vacant |-> address,
                     entries |-> [store.entries EXCEPT
                                    ![address + 1] = Vacant(USIZE_MAX)]],
          item |-> Some(store.entries[address + 1].item)]
    ELSE [store |-> store, item |-> None]
\* Returns the new store and the removed item as an Option.
ObjectStore_remove(store, address) ==
    IF ObjectStore_has(store, address)
    THEN [store |-> [first_vacant |-> address,
                     entries |-> [store.entries EXCEPT
                                    ![address + 1] = Vacant(store.first_vacant)]],
          item |-> Some(store.entries[address + 1].item)]
    ELSE [store |-> store, item |-> None]

\* ObjectStore::iter: the addresses of the live items
ObjectStore_live(store) ==
    {a \in 0..(Len(store.entries) - 1) : store.entries[a + 1].tag = "Occupied"}

-----------------------------------------------------------------------------
\* misc/dense_store.rs (the store is its Vec of items)

DenseStore_insert(items, item) ==
    [items |-> Append(items, item), index |-> Len(items)]

\* DenseStore::get
DenseStore_get(items, index) ==
    IF index >= 0 /\ index < Len(items) THEN Some(items[index + 1]) ELSE None

\* Option<(T, Rename)>: removed is None when the index is out of range.
DenseStore_remove(items, index) ==
    IF index >= 0 /\ index < Len(items)
    THEN [items |-> swap_remove(items, index),
          removed |-> Some(items[index + 1]),
          rename |-> [src |-> Len(items) - 1, dest |-> index]]
    ELSE [items |-> items, removed |-> None, rename |-> [src |-> 0, dest |-> 0]]

-----------------------------------------------------------------------------
\* sandbox/mod.rs: the Sandbox as a value S with the fields of the struct
\* (and `panicked`), so that the nested calls of the code compose.

Panic(S, what) == [S EXCEPT !.panicked = what]

PegAddress(component, peg_type, peg_index) ==
    [component |-> component, peg_type |-> peg_type, peg_index |-> peg_index]

EmptyNet == [wires |-> {}, pegs |-> {}]

\* NetInfo::size
size(net) == Cardinality(net.wires) + Cardinality(net.pegs)

\* The Vec of pegs that ComponentInfo::get_peg indexes for a peg type
component_pegs(info, peg_type) ==
    IF peg_type = "Input" THEN info.inputs ELSE info.outputs

\* Sandbox::get_peg / ComponentInfo::get_peg
get_peg(S, addr) ==
    IF ObjectStore_has(S.components, addr.component)
    THEN LET pegs == component_pegs(Unwrap(ObjectStore_get(S.components, addr.component)),
                                    addr.peg_type) IN
         IF addr.peg_index >= 0 /\ addr.peg_index < Len(pegs)
         THEN Some(pegs[addr.peg_index + 1])
         ELSE None
    ELSE None

\* Sandbox::get_peg_mut(addr).unwrap() followed by an update of the peg
set_peg(S, addr, peg) ==
    LET info == Unwrap(ObjectStore_get(S.components, addr.component))
        info2 == IF addr.peg_type = "Input"
                 THEN [info EXCEPT !.inputs[addr.peg_index + 1] = peg]
                 ELSE [info EXCEPT !.outputs[addr.peg_index + 1] = peg]
    IN [S EXCEPT !.components = ObjectStore_set(@, addr.component, info2)]

\* The loops `wires.get_mut(w).unwrap().net_id = id` and
\* `get_peg_mut(p).unwrap().net_id = id` over a set of live wires and pegs.
relabel(S, pegs, ws, id) ==
    LET relabel_pegs(seq, c, peg_type) ==
            [k \in DOMAIN seq |->
                IF PegAddress(c, peg_type, k - 1) \in pegs
                THEN [seq[k] EXCEPT !.net_id = id]
                ELSE seq[k]]
        relabel_component(e, c) ==
            IF e.tag = "Occupied"
            THEN Occupied([e.item EXCEPT
                             !.inputs = relabel_pegs(@, c, "Input"),
                             !.outputs = relabel_pegs(@, c, "Output")])
            ELSE e
        relabel_wire(e, w) ==
            IF e.tag = "Occupied" /\ w \in ws
            THEN Occupied([e.item EXCEPT !.net_id = id])
            ELSE e
        ce == S.components.entries
        we == S.wires.entries
    IN [S EXCEPT
          !.components.entries = [k \in DOMAIN ce |-> relabel_component(ce[k], k - 1)],
          !.wires.entries = [k \in DOMAIN we |-> relabel_wire(we[k], k - 1)]]

U16_MAX == 65535        \* u16::MAX, the largest next_type

\* DEFAULT_COMPONENT_TYPES: the pairs (number, text id)
DEFAULT_COMPONENT_TYPES ==
    <<<<0, "MHG.Inverter">>, <<1, "MHG.XorGate">>, <<2, "MHG.AndGate">>,
      <<3, "MHG.Delayer">>, <<4, "MHG.DLatch">>, <<5, "MHG.Randomizer">>,
      <<6, "MHG.Relay">>, <<7, "MHG.Buffer_WithOutput">>, <<8, "MHG.Buffer">>,
      <<9, "MHG.CircuitBoard">>, <<10, "MHG.Mount">>, <<11, "MHG.Peg">>,
      <<12, "MHG.ThroughPeg">>, <<13, "MHG.Socket">>, <<14, "MHG.ThroughSocket">>,
      <<15, "MHG.ChubbySocket">>, <<16, "MHG.ChubbyThroughSocket">>, <<17, "MHG.Label">>,
      <<18, "MHG.PanelLabel">>, <<19, "MHG.Chair">>, <<20, "MHG.Flag">>,
      <<21, "MHG.StandingDisplay">>, <<22, "MHG.PanelDisplay">>, <<23, "MHG.Singer">>,
      <<24, "MHG.Drum">>, <<25, "MHG.Switch">>, <<26, "MHG.PanelSwitch">>,
      <<27, "MHG.Button">>, <<28, "MHG.PanelButton">>, <<29, "MHG.Key">>,
      <<30, "MHG.PanelKey">>>>

\* default_component_types_map: the HashMap from text id to number
default_component_types_map ==
    [name \in {DEFAULT_COMPONENT_TYPES[k][2] : k \in DOMAIN DEFAULT_COMPONENT_TYPES} |->
        DEFAULT_COMPONENT_TYPES[
            CHOOSE k \in DOMAIN DEFAULT_COMPONENT_TYPES :
                DEFAULT_COMPONENT_TYPES[k][2] = name][1]]

\* component_types.values().copied().max().unwrap_or(0)
values_max(types) ==
    IF DOMAIN types = {} THEN 0
    ELSE CHOOSE m \in {types[s] : s \in DOMAIN types} :
             \A s \in DOMAIN types : types[s] <= m

\* Sandbox::with_meta_info: the type fields of the sandbox made
with_meta_info(types) ==
    [next_type |-> values_max(types), component_types |-> types]

\* Sandbox::get_component_type on the type fields T.  next_type += 1 on
\* u16::MAX panics in a build with overflow checks and wraps to 0 in one
\* without.
get_component_type(T, id, overflow_checks) ==
    IF id \in DOMAIN T.component_types
    THEN [next_type |-> T.next_type, component_types |-> T.component_types,
          num |-> T.component_types[id], panicked |-> ""]
    ELSE IF T.next_type = U16_MAX /\ overflow_checks
    THEN [next_type |-> T.next_type, component_types |-> T.component_types,
          num |-> T.next_type, panicked |-> "get_component_type: attempt to add with overflow"]
    ELSE [next_type |-> (T.next_type + 1) % (U16_MAX + 1),
          component_types |->
              [s \in DOMAIN T.component_types \cup {id} |->
                  IF s = id THEN T.next_type ELSE T.component_types[s]],
          num |-> T.next_type, panicked |-> ""]

\* Sandbox::new / Sandbox::with_meta_info
Sandbox_new ==
    [root_components |-> {},
     components |-> ObjectStore_new,
     wires |-> ObjectStore_new,
     nets |-> <<>>,
     net_states |-> <<>>,
     panicked |-> ""]

\* A make_net that inserts the net without pushing its bit to net_states
make_net_no_push(S) ==
    IF S.panicked # "" THEN [sandbox |-> S, net_id |-> 0]
    ELSE IF Len(S.nets) # Len(S.net_states)
    THEN [sandbox |-> Panic(S, "make_net: assert_eq"), net_id |-> 0]
    ELSE [sandbox |-> [S EXCEPT !.nets = DenseStore_insert(@, EmptyNet).items],
          net_id |-> DenseStore_insert(S.nets, EmptyNet).index]

\* Sandbox::make_net
make_net(S) ==
    IF S.panicked # "" THEN [sandbox |-> S, net_id |-> 0]
    ELSE IF Len(S.nets) # Len(S.net_states)
    THEN [sandbox |-> Panic(S, "make_net: assert_eq"), net_id |-> 0]
    ELSE [sandbox |-> [S EXCEPT !.net_states = Append(@, FALSE),
                                !.nets = DenseStore_insert(@, EmptyNet).items],
          net_id |-> DenseStore_insert(S.nets, EmptyNet).index]

\* A remove_net that closes the gap in net_states by shifting the later
\* bits down
remove_net_states_shift(S2, net, dest) ==
    IF dest >= Len(S2.net_states)
    THEN [sandbox |-> Panic(S2, "remove_net: net_states.swap_remove"), net |-> None]
    ELSE [sandbox |-> [S2 EXCEPT !.net_states = shift_remove(@, dest)],
          net |-> Some(net)]
\* remove_net, after the renames: net_states.swap_remove(rename.dest) and
\* the assert_eq.  S2 is the sandbox, net the removed NetInfo.
remove_net_states(S2, net, dest) ==
    IF dest >= Len(S2.net_states)
    THEN [sandbox |-> Panic(S2, "remove_net: net_states.swap_remove"), net |-> None]
    ELSE IF Len(S2.nets) # Len(S2.net_states) - 1
    THEN [sandbox |-> Panic([S2 EXCEPT !.net_states = swap_remove(@, dest)],
                            "remove_net: assert_eq"),
          net |-> None]
    ELSE [sandbox |-> [S2 EXCEPT !.net_states = swap_remove(@, dest)],
          net |-> Some(net)]

\* remove_net, after nets.remove(net_id) returned Some((net, rename)): the
\* loops that rename the references to the net moved to rename.dest.  The
\* sandbox of a panicked result is the state before the loop that failed.
remove_net_rename(S1, net, dest) ==
    IF dest >= Len(S1.nets)
    THEN [sandbox |-> Panic(S1, "remove_net: nets.get(rename.dest).unwrap()"),
          net |-> None]
    ELSE IF \E w \in S1.nets[dest + 1].wires : ~ObjectStore_has(S1.wires, w)
    THEN [sandbox |-> Panic(S1, "remove_net: wires.get_mut(wire_id).unwrap()"),
          net |-> None]
    ELSE IF \E p \in S1.nets[dest + 1].pegs : get_peg(S1, p) = None
    THEN [sandbox |-> Panic(S1, "remove_net: get_peg_mut(peg_id).unwrap()"),
          net |-> None]
    ELSE remove_net_states(
             relabel(S1, S1.nets[dest + 1].pegs, S1.nets[dest + 1].wires, dest),
             net, dest)

\* Sandbox::remove_net
remove_net(S, net_id) ==
    IF S.panicked # "" \/ DenseStore_remove(S.nets, net_id).removed = None
    THEN [sandbox |-> S, net |-> None]
    ELSE remove_net_rename([S EXCEPT !.nets = DenseStore_remove(@, net_id).items],
                           S.nets[net_id + 1],
                           DenseStore_remove(S.nets, net_id).rename.dest)

\* merge_nets, after `let src = self.remove_net(id_src).unwrap()`; r is
\* the result of remove_net.
merge_nets_src(r, id_dest) ==
    IF r.sandbox.panicked # "" THEN [sandbox |-> r.sandbox, net_id |-> id_dest]
    ELSE IF r.net = None
    THEN [sandbox |-> Panic(r.sandbox, "merge_nets: remove_net(id_src).unwrap()"),
          net_id |-> id_dest]
    ELSE IF \E w \in Unwrap(r.net).wires : ~ObjectStore_has(r.sandbox.wires, w)
    THEN [sandbox |-> Panic(r.sandbox, "merge_nets: wires.get_mut(wire_id).unwrap()"),
          net_id |-> id_dest]
    ELSE IF \E p \in Unwrap(r.net).pegs : get_peg(r.sandbox, p) = None
    THEN [sandbox |-> Panic(r.sandbox, "merge_nets: get_peg_mut(peg_id).unwrap()"),
          net_id |-> id_dest]
    ELSE IF id_dest >= Len(r.sandbox.nets)
    THEN [sandbox |-> Panic(relabel(r.sandbox, Unwrap(r.net).pegs, Unwrap(r.net).wires,
                                    id_dest),
                            "merge_nets: nets.get_mut(id_dest).unwrap()"),
          net_id |-> id_dest]
    ELSE [sandbox |->
            [relabel(r.sandbox, Unwrap(r.net).pegs, Unwrap(r.net).wires, id_dest)
               EXCEPT !.nets[id_dest + 1] =
                        [wires |-> @.wires \cup Unwrap(r.net).wires,
                         pegs |-> @.pegs \cup Unwrap(r.net).pegs]],
          net_id |-> id_dest]

\* Sandbox::merge_nets
merge_nets(S, id_a, id_b) ==
    IF S.panicked # "" \/ id_a = id_b THEN [sandbox |-> S, net_id |-> id_a]
    ELSE IF id_a >= Len(S.nets)
    THEN [sandbox |-> Panic(S, "merge_nets: nets.get(id_a).unwrap()"), net_id |-> id_a]
    ELSE IF id_b >= Len(S.nets)
    THEN [sandbox |-> Panic(S, "merge_nets: nets.get(id_b).unwrap()"), net_id |-> id_a]
    ELSE IF size(S.nets[id_a + 1]) >= size(S.nets[id_b + 1])
    THEN merge_nets_src(remove_net(S, id_b), id_a)
    ELSE merge_nets_src(remove_net(S, id_a), id_b)

\* The wires found at a set of pegs (visited_wires of check_split)
wires_at(S, pegs) ==
    UNION {Unwrap(get_peg(S, p)).wires : p \in {q \in pegs : get_peg(S, q) # None}}

\* check_split's loop body would panic at peg p: get_peg(p).unwrap(),
\* wires.get(w).unwrap(), or unreachable!() for a wire that is not p's.
traverse_fails(S, p) ==
    \/ get_peg(S, p) = None
    \/ \E w \in Unwrap(get_peg(S, p)).wires :
          \/ ~ObjectStore_has(S.wires, w)
          \/ /\ S.wires.entries[w + 1].item.a # p
             /\ S.wires.entries[w + 1].item.b # p

\* The neighbours pushed on the frontier when peg p is popped
neighbors(S, p) ==
    {IF p = S.wires.entries[w + 1].item.a
     THEN S.wires.entries[w + 1].item.b
     ELSE S.wires.entries[w + 1].item.a : w \in Unwrap(get_peg(S, p)).wires}

\* The traversal of check_split: visited_pegs when the frontier is empty.
\* Every visited peg is popped once, so the loop panics exactly when some
\* visited peg fails, whatever the order of the frontier.
RECURSIVE traverse(_, _)
traverse(S, visited) ==
    IF \E p \in visited : traverse_fails(S, p)
    THEN [ok |-> FALSE, pegs |-> visited]
    ELSE IF UNION {neighbors(S, p) : p \in visited} \subseteq visited
    THEN [ok |-> TRUE, pegs |-> visited]
    ELSE traverse(S, visited \cup UNION {neighbors(S, p) : p \in visited})

\* check_split, after the traversal: m is the result of make_net.
check_split_new_net(m, pegs, ws) ==
    IF m.sandbox.panicked # "" THEN m.sandbox
    ELSE relabel(m.sandbox, pegs, ws, m.net_id)

\* check_split, from the traversal on; t is its result.
check_split_traversed(S, addr_b, t) ==
    IF ~t.ok THEN Panic(S, "check_split: traversal unwrap")
    ELSE IF addr_b \in t.pegs THEN S
    ELSE check_split_new_net(make_net(S), t.pegs, wires_at(S, t.pegs))

\* Sandbox::check_split
check_split(S, addr_a, addr_b) ==
    IF S.panicked # "" THEN S
    ELSE IF get_peg(S, addr_a) = None \/ get_peg(S, addr_b) = None THEN S
    ELSE IF Unwrap(get_peg(S, addr_a)).net_id # Unwrap(get_peg(S, addr_b)).net_id
    THEN IF addr_a.peg_type # addr_b.peg_type THEN S
         ELSE Panic(S, "check_split: assert peg_type")
    ELSE check_split_traversed(S, addr_b, traverse(S, {addr_a}))

\* A remove_wire that leaves the wire id in the peg's wire set
peg_keep_wire(S, addr, id) == S

\* `if let Some(peg) = get_peg_mut(addr) { peg.wires.remove(&id) }`
peg_remove_wire(S, addr, id) ==
    IF get_peg(S, addr) = None THEN S
    ELSE set_peg(S, addr, [Unwrap(get_peg(S, addr)) EXCEPT !.wires = @ \ {id}])

\* `get_peg_mut(addr).unwrap().wires.insert(id)` (addr is a live peg)
peg_insert_wire(S, addr, id) ==
    set_peg(S, addr, [Unwrap(get_peg(S, addr)) EXCEPT !.wires = @ \cup {id}])

\* remove_wire, after wires.remove(id) returned Some(wire); S1 is the
\* sandbox without the wire.
remove_wire_removed(S1, id, wire) ==
    IF wire.net_id >= Len(S1.nets)
    THEN Panic(S1, "remove_wire: nets.get_mut(wire.net_id).unwrap()")
    ELSE check_split(
             peg_remove_wire(
                 peg_remove_wire([S1 EXCEPT !.nets[wire.net_id + 1].wires = @ \ {id}],
                                 wire.a, id),
                 wire.b, id),
             wire.a, wire.b)

\* A remove_wire that unwraps wires.remove(id) instead of returning early
remove_wire_unwrap(S, id) ==
    IF S.panicked # "" THEN S
    ELSE IF ~ObjectStore_has(S.wires, id)
    THEN Panic(S, "remove_wire: wires.remove(id).unwrap()")
    ELSE remove_wire_removed([S EXCEPT !.wires = ObjectStore_remove(@, id).store],
                             id, S.wires.entries[id + 1].item)

\* Sandbox::remove_wire
remove_wire(S, id) ==
    IF S.panicked # "" \/ ~ObjectStore_has(S.wires, id) THEN S
    ELSE remove_wire_removed([S EXCEPT !.wires = ObjectStore_remove(@, id).store],
                             id, S.wires.entries[id + 1].item)

\* insert_wire, after wires.insert(info): ins is the result of the insert
\* into the wire store of S1; registers the wire in the pegs and the net.
insert_wire_register(S1, ins, addr_a, addr_b, net_id) ==
    IF ins.unreachable
    THEN [sandbox |-> Panic(S1, "ObjectStore::insert: unreachable"),
          ok |-> FALSE, wire_ids |-> {}]
    ELSE IF get_peg(S1, addr_a) = None \/ get_peg(S1, addr_b) = None
    THEN [sandbox |-> Panic(S1, "insert_wire: get_peg_mut(addr).unwrap()"),
          ok |-> FALSE, wire_ids |-> {}]
    ELSE IF net_id < 0 \/ net_id >= Len(S1.nets)
    THEN [sandbox |-> Panic(S1, "insert_wire: nets.get_mut(net_id).unwrap()"),
          ok |-> FALSE, wire_ids |-> {}]
    ELSE [sandbox |->
            [peg_insert_wire(
                 peg_insert_wire([S1 EXCEPT !.wires = ins.store], addr_a, ins.address),
                 addr_b, ins.address)
               EXCEPT !.nets[net_id + 1].wires = @ \cup {ins.address}],
          ok |-> TRUE, wire_ids |-> {ins.address}]

\* insert_wire, from "Create wire" on; n is the net chosen for the wire
\* with the sandbox after a merge.
insert_wire_create(n, addr_a, addr_b) ==
    IF n.sandbox.panicked # "" THEN [sandbox |-> n.sandbox, ok |-> FALSE, wire_ids |-> {}]
    ELSE insert_wire_register(
             n.sandbox,
             ObjectStore_insert(n.sandbox.wires,
                                [a |-> addr_a, b |-> addr_b, net_id |-> n.net_id]),
             addr_a, addr_b, n.net_id)

\* A `match net_id` that merges the nets of the two pegs whatever their
\* types
insert_wire_net_merging(S, addr_a, addr_b, peg_a, peg_b, net_id) ==
    IF net_id # None
    THEN IF /\ (addr_a.peg_type = "Output" \/ Unwrap(net_id) = peg_b.net_id)
            /\ (addr_b.peg_type = "Output" \/ Unwrap(net_id) = peg_a.net_id)
         THEN [sandbox |-> S, net_id |-> Unwrap(net_id)]
         ELSE [sandbox |-> Panic(S, "insert_wire: assert net_id"),
               net_id |-> Unwrap(net_id)]
    ELSE merge_nets(S, peg_a.net_id, peg_b.net_id)
\* insert_wire's `match net_id`: the net of the new wire between the live
\* pegs peg_a and peg_b, with the sandbox after a merge.
insert_wire_net(S, addr_a, addr_b, peg_a, peg_b, net_id) ==
    IF net_id # None
    THEN IF /\ (addr_a.peg_type = "Output" \/ Unwrap(net_id) = peg_b.net_id)
            /\ (addr_b.peg_type = "Output" \/ Unwrap(net_id) = peg_a.net_id)
         THEN [sandbox |-> S, net_id |-> Unwrap(net_id)]
         ELSE [sandbox |-> Panic(S, "insert_wire: assert net_id"),
               net_id |-> Unwrap(net_id)]
    ELSE IF addr_a.peg_type = "Output" THEN [sandbox |-> S, net_id |-> peg_a.net_id]
    ELSE IF addr_b.peg_type = "Output" THEN [sandbox |-> S, net_id |-> peg_b.net_id]
    ELSE merge_nets(S, peg_a.net_id, peg_b.net_id)

\* An insert_wire without the check that forbids a wire between outputs
insert_wire_outputs(S, addr_a, addr_b, net_id) ==
    IF S.panicked # "" THEN [sandbox |-> S, ok |-> FALSE, wire_ids |-> {}]
    ELSE IF get_peg(S, addr_a) = None \/ get_peg(S, addr_b) = None
    THEN [sandbox |-> S, ok |-> FALSE, wire_ids |-> {}]
    ELSE IF Unwrap(get_peg(S, addr_a)).wires \cap Unwrap(get_peg(S, addr_b)).wires # {}
    THEN [sandbox |-> S, ok |-> TRUE,
          wire_ids |-> Unwrap(get_peg(S, addr_a)).wires
                       \cap Unwrap(get_peg(S, addr_b)).wires]
    ELSE insert_wire_create(
             insert_wire_net(S, addr_a, addr_b, Unwrap(get_peg(S, addr_a)),
                             Unwrap(get_peg(S, addr_b)), net_id),
             addr_a, addr_b)

\* Sandbox::insert_wire.  net_id is the Option of the declared net (Some
\* when loading a file).  The result is Err (ok = FALSE) or Ok with the
\* wire ids the call may return: intersection().next() of two hash sets
\* yields any one of the common wires.
insert_wire(S, addr_a, addr_b, net_id) ==
    IF S.panicked # "" THEN [sandbox |-> S, ok |-> FALSE, wire_ids |-> {}]
    ELSE IF addr_a.peg_type = "Output" /\ addr_b.peg_type = "Output"
    THEN [sandbox |-> S, ok |-> FALSE, wire_ids |-> {}]
    ELSE IF get_peg(S, addr_a) = None \/ get_peg(S, addr_b) = None
    THEN [sandbox |-> S, ok |-> FALSE, wire_ids |-> {}]
    ELSE IF Unwrap(get_peg(S, addr_a)).wires \cap Unwrap(get_peg(S, addr_b)).wires # {}
    THEN [sandbox |-> S, ok |-> TRUE,
          wire_ids |-> Unwrap(get_peg(S, addr_a)).wires
                       \cap Unwrap(get_peg(S, addr_b)).wires]
    ELSE insert_wire_create(
             insert_wire_net(S, addr_a, addr_b, Unwrap(get_peg(S, addr_a)),
                             Unwrap(get_peg(S, addr_b)), net_id),
             addr_a, addr_b)

\* Sandbox::add_wire
add_wire(S, addr_a, addr_b) == insert_wire(S, addr_a, addr_b, None)

\* The addresses of the pegs of component id, inputs then outputs, as
\* the chained iterator of remove_component yields them.
peg_addresses(id, info) ==
    [k \in 1..Len(info.inputs) |-> PegAddress(id, "Input", k - 1)]
    \o [k \in 1..Len(info.outputs) |-> PegAddress(id, "Output", k - 1)]

\* The pegs of component id (with ComponentInfo info) whose net_id is n
pegs_in_net(id, info, n) ==
    {PegAddress(id, "Input", k - 1) :
        k \in {j \in DOMAIN info.inputs : info.inputs[j].net_id = n}}
    \cup {PegAddress(id, "Output", k - 1) :
            k \in {j \in DOMAIN info.outputs : info.outputs[j].net_id = n}}

\* An insert_component without the peg-net cross-references
insert_component_no_xref(S1, id, info) ==
    IF info.parent # None /\ ~ObjectStore_has(S1.components, Unwrap(info.parent))
    THEN [sandbox |-> Panic(S1, "insert_component: components.get_mut(parent).unwrap()"),
          id |-> id]
    ELSE [sandbox |->
            [S1 EXCEPT
               !.components.entries =
                   IF info.parent = None THEN @
                   ELSE [@ EXCEPT ![Unwrap(info.parent) + 1].item.children = @ \cup {id}],
               !.root_components = IF info.parent = None THEN @ \cup {id} ELSE @],
          id |-> id]
\* insert_component, from "Add peg-net cross-references" on; S1 holds the
\* component info at id.
insert_component_xref(S1, id, info) ==
    IF \/ \E k \in DOMAIN info.inputs :
             info.inputs[k].net_id < 0 \/ info.inputs[k].net_id >= Len(S1.nets)
       \/ \E k \in DOMAIN info.outputs :
             info.outputs[k].net_id < 0 \/ info.outputs[k].net_id >= Len(S1.nets)
    THEN [sandbox |-> Panic(S1, "insert_component: nets.get_mut(net_id).unwrap()"),
          id |-> id]
    ELSE IF info.parent # None /\ ~ObjectStore_has(S1.components, Unwrap(info.parent))
    THEN [sandbox |-> Panic(S1, "insert_component: components.get_mut(parent).unwrap()"),
          id |-> id]
    ELSE [sandbox |->
            [S1 EXCEPT
               !.nets = [n \in DOMAIN @ |->
                           [@[n] EXCEPT !.pegs = @ \cup pegs_in_net(id, info, n - 1)]],
               !.components.entries =
                   IF info.parent = None THEN @
                   ELSE [@ EXCEPT ![Unwrap(info.parent) + 1].item.children = @ \cup {id}],
               !.root_components = IF info.parent = None THEN @ \cup {id} ELSE @],
          id |-> id]

\* insert_component, after components.insert(info); ins is its result.
insert_component_inserted(S, ins, info) ==
    IF ins.unreachable
    THEN [sandbox |-> Panic(S, "ObjectStore::insert: unreachable"), id |-> ins.address]
    ELSE insert_component_xref([S EXCEPT !.components = ins.store], ins.address, info)

\* Sandbox::insert_component
insert_component(S, info) ==
    IF S.panicked # "" THEN [sandbox |-> S, id |-> 0]
    ELSE insert_component_inserted(S, ObjectStore_insert(S.components, info), info)

\* repeat_with(|| PegInfo { net_id: self.make_net(), wires: {} }).take(count):
\* r holds the sandbox and the pegs made so far.
RECURSIVE make_pegs(_, _)
make_pegs(r, count) ==
    IF count = 0 \/ r.sandbox.panicked # "" THEN r
    ELSE make_pegs([sandbox |-> make_net(r.sandbox).sandbox,
                    pegs |-> Append(r.pegs, [net_id |-> make_net(r.sandbox).net_id,
                                             wires |-> {}])],
                   count - 1)

\* add_component, after the pegs are made: ins and outs are the results of
\* make_pegs for the inputs and then the outputs.
add_component_insert(ins, outs, parent) ==
    IF outs.sandbox.panicked # "" THEN [sandbox |-> outs.sandbox, id |-> 0]
    ELSE insert_component(outs.sandbox,
                          [parent |-> parent, children |-> {},
                           inputs |-> ins.pegs, outputs |-> outs.pegs])

\* add_component, after the input pegs are made
add_component_outputs(ins, parent, num_outputs) ==
    add_component_insert(ins, make_pegs([sandbox |-> ins.sandbox, pegs |-> <<>>],
                                        num_outputs),
                         parent)

\* Sandbox::add_component
add_component(S, parent, num_inputs, num_outputs) ==
    add_component_outputs(make_pegs([sandbox |-> S, pegs |-> <<>>], num_inputs),
                          parent, num_outputs)

\* `for wire_id in &peg.wires { self.remove_wire(*wire_id) }`.  Each of
\* these wires has the removed peg as an endpoint, so each check_split
\* returns at once and the removals commute: the order is immaterial.
RECURSIVE remove_wires(_, _)
remove_wires(S, ws) ==
    IF ws = {} \/ S.panicked # "" THEN S
    ELSE remove_wires(remove_wire(S, Min(ws)), ws \ {Min(ws)})

\* "Remove peg-net cross-references. Remove nets if empty" for one peg of
\* the removed component; S1 is the sandbox after the peg's wires are removed.
remove_peg_xref(S1, peg_addr, peg) ==
    IF S1.panicked # "" THEN S1
    ELSE IF peg.net_id >= Len(S1.nets)
    THEN Panic(S1, "remove_component: nets.get_mut(peg.net_id).unwrap()")
    ELSE IF size([S1.nets[peg.net_id + 1] EXCEPT !.pegs = @ \ {peg_addr}]) = 0
    THEN remove_net([S1 EXCEPT !.nets[peg.net_id + 1].pegs = @ \ {peg_addr}],
                    peg.net_id).sandbox
    ELSE [S1 EXCEPT !.nets[peg.net_id + 1].pegs = @ \ {peg_addr}]

\* The loop of remove_component over the pegs, from peg k on.  info is the
\* removed ComponentInfo: its net ids and wire sets are those of the moment
\* the component left the store.
RECURSIVE remove_pegs(_, _, _, _)
remove_pegs(S, id, info, k) ==
    IF k > Len(peg_addresses(id, info)) \/ S.panicked # "" THEN S
    ELSE remove_pegs(
             remove_peg_xref(
                 remove_wires(S, component_pegs(info, peg_addresses(id, info)[k].peg_type)
                                     [peg_addresses(id, info)[k].peg_index + 1].wires),
                 peg_addresses(id, info)[k],
                 component_pegs(info, peg_addresses(id, info)[k].peg_type)
                     [peg_addresses(id, info)[k].peg_index + 1]),
             id, info, k + 1)

\* A remove_component that leaves the id in the children of its parent
remove_parent_xref_skip(S2, id, component) == S2

\* "Remove component-parent cross-references" of remove_component
remove_parent_xref(S2, id, component) ==
    IF S2.panicked = "" /\ component.parent # None
       /\ ObjectStore_has(S2.components, Unwrap(component.parent))
    THEN [S2 EXCEPT !.components.entries[Unwrap(component.parent) + 1].item.children =
                       @ \ {id}]
    ELSE S2

\* A remove_component that does not remove the children
remove_children_skip(S, children, rank) == S

\* Sandbox::remove_component.  rank orders the iteration of the hash set
\* component.children: the child of least rank is visited first.
RECURSIVE remove_component(_, _, _), remove_children(_, _, _)
remove_component(S, id, rank) ==
    IF S.panicked # "" \/ ~ObjectStore_has(S.components, id) THEN S
    ELSE remove_children(
             remove_parent_xref(
                 remove_pegs([S EXCEPT !.components = ObjectStore_remove(@, id).store],
                             id, S.components.entries[id + 1].item, 1),
                 id, S.components.entries[id + 1].item),
             S.components.entries[id + 1].item.children, rank)

\* `for child in component.children { self.remove_component(child) }`
remove_children(S, children, rank) ==
    IF children = {} \/ S.panicked # "" THEN S
    ELSE remove_children(
             remove_component(
                 S, CHOOSE c \in children : \A d \in children : rank[c] <= rank[d], rank),
             children \ {CHOOSE c \in children : \A d \in children : rank[c] <= rank[d]},
             rank)

-----------------------------------------------------------------------------
\* sandbox/serialize.rs: building a Sandbox from a newest-version file.
\* A file is [components, wires, circuit_states]; a component is
\* [address, parent, inputs, outputs] with inputs and outputs the sequences
\* of circuit_state_id; a wire is [start_peg, end_peg, circuit_state_id]
\* with pegs [peg_type, component_address, peg_index]; circuit_states is
\* [format, bytes].

\* Bit i of a byte, least significant first (BitVec<u8> is Lsb0)
bit(byte, i) == ((byte \div (2 ^ i)) % 2) = 1

\* BitVec::from_slice
BitVec_from_slice(bytes) ==
    [k \in 1..(BitsPerByte * Len(bytes)) |->
        bit(bytes[((k - 1) \div BitsPerByte) + 1], (k - 1) % BitsPerByte)]

\* Deserializer::deserialize_component.  map is component_id_map, a
\* function from the file addresses registered so far to ComponentId.
\* ok is FALSE when component_id_map[&parent] or NetId::from_raw panics.
deserialize_component(map, component) ==
    [ok |-> /\ (component.parent = 0 \/ component.parent \in DOMAIN map)
            /\ \A k \in DOMAIN component.inputs : component.inputs[k] >= 0
            /\ \A k \in DOMAIN component.outputs : component.outputs[k] >= 0,
     info |-> [parent |-> IF component.parent = 0 \/ component.parent \notin DOMAIN map
                          THEN None ELSE Some(map[component.parent]),
               children |-> {},
               inputs |-> [k \in DOMAIN component.inputs |->
                             [net_id |-> component.inputs[k], wires |-> {}]],
               outputs |-> [k \in DOMAIN component.outputs |->
                              [net_id |-> component.outputs[k], wires |-> {}]]]]

\* Deserializer::deserialize_peg_address
deserialize_peg_address(map, addr) ==
    [ok |-> addr.component_address \in DOMAIN map /\ addr.peg_index >= 0,
     addr |-> PegAddress(IF addr.component_address \in DOMAIN map
                         THEN map[addr.component_address] ELSE 0,
                         addr.peg_type, addr.peg_index)]

\* component_id_map after register_component(address, id)
register_component(map, address, id) ==
    [a \in DOMAIN map \cup {address} |-> IF a = address THEN id ELSE map[a]]

\* The loop `for component in &file.components`, from component k on;
\* c holds the sandbox and component_id_map.
RECURSIVE load_components(_, _, _)
load_component(c, component, d) ==
    IF ~d.ok
    THEN [sandbox |-> Panic(c.sandbox, "deserialize_component: unwrap"), map |-> c.map]
    ELSE [sandbox |-> insert_component(c.sandbox, d.info).sandbox,
          map |-> register_component(c.map, component.address,
                                     insert_component(c.sandbox, d.info).id)]

load_components(c, cs, k) ==
    IF k > Len(cs) \/ c.sandbox.panicked # "" THEN c
    ELSE load_components(load_component(c, cs[k], deserialize_component(c.map, cs[k])),
                         cs, k + 1)

\* The body of the loop `for wire in &file.wires`: a and b are the
\* deserialized peg addresses.
load_wire_inserted(r) ==
    IF r.sandbox.panicked = "" /\ ~r.ok
    THEN Panic(r.sandbox, "from file: insert_wire(..).unwrap()")
    ELSE r.sandbox

load_wire(S, wire, a, b) ==
    IF ~a.ok \/ ~b.ok \/ wire.circuit_state_id < 0
    THEN Panic(S, "deserialize_wire: unwrap")
    ELSE load_wire_inserted(insert_wire(S, a.addr, b.addr, Some(wire.circuit_state_id)))

\* The loop `for wire in &file.wires`, from wire k on
RECURSIVE load_wires(_, _, _, _)
load_wires(S, map, ws, k) ==
    IF k > Len(ws) \/ S.panicked # "" THEN S
    ELSE load_wires(load_wire(S, ws[k],
                              deserialize_peg_address(map, ws[k].start_peg),
                              deserialize_peg_address(map, ws[k].end_peg)),
                    map, ws, k + 1)

\* From<&BlotterFile> for Sandbox, after the nets are pre-created: c is
\* the result of the loop over the components.
load_file_wires(c, ws) == load_wires(c.sandbox, c.map, ws, 1)

\* The components loop of "impl From<&BlotterFile> for Sandbox", run on the
\* sandbox with the nets and net states of the file
load_file_components(file) ==
    load_components(
        [sandbox |-> [Sandbox_new EXCEPT
                        !.net_states = BitVec_from_slice(file.circuit_states.bytes),
                        !.nets = [k \in 1..(BitsPerByte
                                            * Len(file.circuit_states.bytes))
                                    |-> EmptyNet]],
         map |-> [a \in {} |-> 0]],
        file.components, 1)

\* impl From<&BlotterFile> for Sandbox
Sandbox_from_file(file) ==
    IF file.circuit_states.format # "WorldFormat"
    THEN Panic(Sandbox_new, "from file: unsupported circuit state format")
    ELSE load_file_wires(load_file_components(file), file.wires)

-----------------------------------------------------------------------------
\* The binary codec (io.rs, v5.rs, v6.rs).  A stream is a sequence of bytes
\* 0..255.  A reader is the record [err, pos, val]: err is "" or the Error
\* returned, pos the 1-based index of the next byte of the stream, val the
\* values read so far, the last read last.  Every read takes the reader
\* the read before it left, and does nothing when that one failed (the `?`
\* of the code).  u32 and f32 values are held by their 32 bits, written as
\* the i32 with the same bits; from_le_bytes and to_le_bytes move the bits.

\* A reader at the start of a stream
Reader_new == [err |-> "", pos |-> 1, val |-> <<>>]
\* The reader after its last n values were replaced by v
packed(r, n, v) == [r EXCEPT !.val = Append(SubSeq(r.val, 1, Len(r.val) - n), v)]
\* The k-th of the last n values of a reader
field(r, n, k) == r.val[Len(r.val) - n + k]

\* u8::from_le_bytes, u16::from_le_bytes: the unsigned value of n bytes
RECURSIVE from_le_bytes(_, _, _)
from_le_bytes(s, pos, n) ==
    IF n = 0 THEN 0 ELSE s[pos] + 256 * from_le_bytes(s, pos + 1, n - 1)
\* i32::from_le_bytes: two's complement of 4 bytes
i32_from_le_bytes(s, pos) ==
    from_le_bytes(s, pos, 3)
    + 16777216 * (IF s[pos + 3] >= 128 THEN s[pos + 3] - 256 ELSE s[pos + 3])
\* to_le_bytes of a value of n bytes (two's complement when negative)
to_le_bytes(v, n) == [k \in 1..n |-> (v \div (256 ^ (k - 1))) % 256]

\* reader.read_exact of n bytes followed by the conversion that gives v;
\* a stream that ends early is the io::Error UnexpectedEof
read_exact(s, r, n, v) ==
    IF r.err # "" THEN r
    ELSE IF r.pos + n - 1 > Len(s) THEN [r EXCEPT !.err = "IoError"]
    ELSE [err |-> "", pos |-> r.pos + n, val |-> Append(r.val, v)]

read_u8(s, r) == read_exact(s, r, 1, from_le_bytes(s, r.pos, 1))
read_u16(s, r) == read_exact(s, r, 2, from_le_bytes(s, r.pos, 2))
read_i32(s, r) == read_exact(s, r, 4, i32_from_le_bytes(s, r.pos))
read_u32(s, r) == read_exact(s, r, 4, i32_from_le_bytes(s, r.pos))
read_f32(s, r) == read_exact(s, r, 4, i32_from_le_bytes(s, r.pos))

\* The reader fails with err
failed(r, err) == [r EXCEPT !.err = err]
\* The last value of a reader, and the reader without it
top(r) == r.val[Len(r.val)]
popped(r) == [r EXCEPT !.val = SubSeq(r.val, 1, Len(r.val) - 1)]

\* try_into() of the i32 just read into a usize
usize_try_into(r) == IF r.err = "" /\ top(r) < 0 THEN failed(r, "InvalidSave") ELSE r

\* read_usize
read_usize(s, r) == usize_try_into(read_i32(s, r))

\* read_bytevec: len bytes
read_bytevec(s, r, len) == read_exact(s, r, len, SubSeq(s, r.pos, r.pos + len - 1))

\* The bytes from k on are continuation bytes up to the end of a sequence
\* of n bytes that starts at k - 1 or before
RECURSIVE utf8_tail(_, _, _)
utf8_tail(b, k, n) ==
    n = 0 \/ (k <= Len(b) /\ b[k] >= 128 /\ b[k] <= 191 /\ utf8_tail(b, k + 1, n - 1))
\* The number of bytes of the well-formed UTF-8 sequence that starts at
\* b[k], or 0 when there is none
utf8_width(b, k) ==
    IF b[k] <= 127 THEN 1
    ELSE IF b[k] >= 194 /\ b[k] <= 223 /\ utf8_tail(b, k + 1, 1) THEN 2
    ELSE IF /\ b[k] >= 224 /\ b[k] <= 239 /\ utf8_tail(b, k + 1, 2)
            /\ (b[k] = 224 => b[k + 1] >= 160)
            /\ (b[k] = 237 => b[k + 1] <= 159) THEN 3
    ELSE IF /\ b[k] >= 240 /\ b[k] <= 244 /\ utf8_tail(b, k + 1, 3)
            /\ (b[k] = 240 => b[k + 1] >= 144)
            /\ (b[k] = 244 => b[k + 1] <= 143) THEN 4
    ELSE 0
\* String::from_utf8 succeeds on the bytes from k on
RECURSIVE from_utf8(_, _)
from_utf8(b, k) ==
    k > Len(b) \/ (utf8_width(b, k) > 0 /\ from_utf8(b, k + utf8_width(b, k)))

\* String::from_utf8 of the bytes just read, mapped to InvalidSave
string_from_utf8(r) ==
    IF r.err = "" /\ ~from_utf8(top(r), 1) THEN failed(r, "InvalidSave") ELSE r
\* read_string, once read_usize has read the length
read_string_bytes(s, r) ==
    IF r.err # "" THEN r ELSE string_from_utf8(read_bytevec(s, popped(r), top(r)))
read_string(s, r) == read_string_bytes(s, read_usize(s, r))

\* read_array / read_version: the n values just read, as an array
array_packed(r, n) ==
    IF r.err # "" THEN r ELSE packed(r, n, SubSeq(r.val, Len(r.val) - n + 1, Len(r.val)))
\* read_version: [i32; 4]
read_version(s, r) == array_packed(read_i32(s, read_i32(s, read_i32(s, read_i32(s, r)))), 4)

SAVE_HEADER == <<76, 111, 103, 105, 99, 32, 87, 111, 114, 108, 100, 32, 115, 97, 118, 101>>
SAVE_FOOTER == <<114, 101, 100, 115, 116, 111, 110, 101, 32, 115, 117, 120, 32, 108, 111, 108>>
\* read_magic, once the 16 bytes were read
magic_checked(r, magic_bytes) ==
    IF r.err # "" THEN r
    ELSE IF top(r) # magic_bytes THEN failed(r, "InvalidSave")
    ELSE popped(r)
read_magic(s, r, magic_bytes) == magic_checked(read_bytevec(s, r, 16), magic_bytes)

\* read_peg_address with a match that takes every byte but 1 for an output
peg_kind_any(r) == r
\* read_peg_address: the match on the byte peg_kind
peg_kind_matched(r) ==
    IF r.err = "" /\ top(r) \notin {0, 1} THEN failed(r, "InvalidSave") ELSE r

peg_address_packed(r) ==
    IF r.err # "" THEN r
    ELSE packed(r, 3, [is_input |-> field(r, 3, 1) = 1,
                       component_address |-> field(r, 3, 2),
                       peg_index |-> field(r, 3, 3)])
read_peg_address(s, r) ==
    peg_address_packed(read_i32(s, read_u32(s, peg_kind_matched(read_u8(s, r)))))

\* The closure of read_vec that reads a Wire
wire_packed(r) ==
    IF r.err # "" THEN r
    ELSE packed(r, 4, [start_peg |-> field(r, 4, 1), end_peg |-> field(r, 4, 2),
                       circuit_state_id |-> field(r, 4, 3), rotation |-> field(r, 4, 4)])
read_wire(s, r) ==
    wire_packed(read_f32(s, read_i32(s, read_peg_address(s, read_peg_address(s, r)))))

\* The closure of read_vec that reads a ModInfo
mod_packed(r) ==
    IF r.err # "" THEN r
    ELSE packed(r, 2, [mod_id |-> field(r, 2, 1), mod_version |-> field(r, 2, 2)])
read_mod(s, r) == mod_packed(read_version(s, read_string(s, r)))

\* The closure of read_vec that reads a ComponentType
component_type_packed(r) ==
    IF r.err # "" THEN r
    ELSE packed(r, 2, [numeric_id |-> field(r, 2, 1), text_id |-> field(r, 2, 2)])
read_component_type(s, r) == component_type_packed(read_string(s, read_u16(s, r)))

\* custom_data, once custom_data_len was read: a negative length is None
some_packed(r) == IF r.err # "" THEN r ELSE packed(r, 1, Some(top(r)))
custom_data_read(s, r) ==
    IF r.err # "" THEN r
    ELSE IF top(r) < 0 THEN packed(r, 1, None)
    ELSE some_packed(read_bytevec(s, popped(r), top(r)))

RECURSIVE read_vec(_, _, _, _)
RECURSIVE read_item(_, _, _)

\* read_vec's vec.push(reader()?): the item just read joins the vector
\* under it
vec_pushed(r) == IF r.err # "" THEN r ELSE packed(r, 2, Append(field(r, 2, 1), top(r)))
\* read_vec(len, reader) with the vector read so far as the last value
read_vec(s, r, len, kind) ==
    IF r.err # "" \/ len = 0 THEN r
    ELSE CHOOSE done \in {read_vec(s, pushed, len - 1, kind) :
                             pushed \in {vec_pushed(read_item(s, r, kind))}} : TRUE
\* read_vec whose length is the value read_usize has just read
counted_vec(s, r, kind) ==
    IF r.err # "" THEN r ELSE read_vec(s, packed(r, 1, <<>>), top(r), kind)
read_counted(s, r, kind) == counted_vec(s, read_usize(s, r), kind)

\* The closure of read_vec that reads a Component
component_packed(r) ==
    IF r.err # "" THEN r
    ELSE packed(r, 8, [address |-> field(r, 8, 1), parent |-> field(r, 8, 2),
                       type_id |-> field(r, 8, 3), position |-> field(r, 8, 4),
                       rotation |-> field(r, 8, 5), inputs |-> field(r, 8, 6),
                       outputs |-> field(r, 8, 7), custom_data |-> field(r, 8, 8)])
\* position: [i32; 3] in v6, [f32; 3] in v5
read_position(s, r) == array_packed(read_i32(s, read_i32(s, read_i32(s, r))), 3)
\* rotation: [f32; 4]
read_rotation(s, r) ==
    array_packed(read_f32(s, read_f32(s, read_f32(s, read_f32(s, r)))), 4)
read_component(s, r) ==
    component_packed(
        custom_data_read(s,
            read_i32(s,
                read_counted(s,
                    read_counted(s,
                        read_rotation(s,
                            read_position(s, read_u16(s, read_u32(s, read_u32(s, r))))),
                        "i32"),
                    "i32"))))

\* The closures passed to read_vec
read_item(s, r, kind) ==
    CASE kind = "i32" -> read_i32(s, r)
      [] kind = "ModInfo" -> read_mod(s, r)
      [] kind = "ComponentType" -> read_component_type(s, r)
      [] kind = "Component" -> read_component(s, r)
      [] kind = "Wire" -> read_wire(s, r)

\* read_after_save_version with a match that takes every byte but 1 for
\* a subassembly
save_type_any(r) == r
\* read_after_save_version: the match on the byte save_type_id
save_type_matched(r) ==
    IF r.err = "" /\ top(r) \notin {1, 2} THEN failed(r, "InvalidSave") ELSE r

\* ... up to component_types: the last six values are game_version,
\* save_type_id, num_components, num_wires, mods, component_types
read_component_types(s, r) ==
    read_counted(s,
        read_counted(s,
            read_usize(s, read_usize(s, save_type_matched(read_u8(s, read_version(s, r))))),
            "ModInfo"),
        "ComponentType")
\* ... the components, num_components of them
read_components(s, r) ==
    IF r.err # "" THEN r
    ELSE read_vec(s, [r EXCEPT !.val = Append(@, <<>>)], field(r, 6, 3), "Component")
\* ... the wires, num_wires of them
read_wires(s, r) ==
    IF r.err # "" THEN r
    ELSE read_vec(s, [r EXCEPT !.val = Append(@, <<>>)], field(r, 7, 4), "Wire")
\* ... the circuit states in the format of the save type
world_packed(r) ==
    IF r.err # "" THEN r
    ELSE packed(r, 1, [format |-> "WorldFormat", circuit_states |-> top(r)])
subassembly_packed(r) ==
    IF r.err # "" THEN r
    ELSE packed(r, 1, [format |-> "SubassemblyFormat", on_states |-> top(r)])
world_read(s, r) ==
    IF r.err # "" THEN r ELSE world_packed(read_bytevec(s, popped(r), top(r)))
read_circuit_states(s, r) ==
    IF r.err # "" THEN r
    ELSE IF field(r, 8, 2) = 1 THEN world_read(s, read_usize(s, r))
    ELSE subassembly_packed(read_counted(s, r, "i32"))
\* ... Ok(Self {..}); version is the version of the module (v5 or v6)
file_packed(r, version) ==
    IF r.err # "" THEN r
    ELSE packed(r, 9, [version |-> version,
                       game_version |-> field(r, 9, 1),
                       save_type |-> IF field(r, 9, 2) = 1 THEN "World" ELSE "Subassembly",
                       mods |-> field(r, 9, 5),
                       component_types |-> field(r, 9, 6),
                       components |-> field(r, 9, 7),
                       wires |-> field(r, 9, 8),
                       circuit_states |-> field(r, 9, 9)])
\* BlotterFile::read_after_save_version of v5 and of v6
read_after_save_version(s, r, version) ==
    file_packed(
        read_magic(s,
            read_circuit_states(s, read_wires(s, read_components(s, read_component_types(s, r)))),
            SAVE_FOOTER),
        version)

\* BlotterFile::read that goes on whatever save_version is
save_version_unchecked(s, r, version) ==
    IF r.err # "" THEN r ELSE read_after_save_version(s, popped(r), version)
\* BlotterFile::read of v5 and v6, once save_version was read
save_version_checked(s, r, version) ==
    IF r.err # "" THEN r
    ELSE IF top(r) # version THEN failed(r, "IncompatibleVersion")
    ELSE read_after_save_version(s, popped(r), version)

\* v5::BlotterFile::read (version 5), v6::BlotterFile::read (version 6)
BlotterFile_read(s, version) ==
    save_version_checked(s, read_u8(s, read_magic(s, Reader_new, SAVE_HEADER)), version)

\* A writer is the record [err, bytes]: the bytes written so far and "" or
\* the Error returned.  Every write does nothing after an error.
Writer_new == [err |-> "", bytes |-> <<>>]
\* writer.write_all
write_all(w, bytes) == IF w.err # "" THEN w ELSE [w EXCEPT !.bytes = @ \o bytes]
write_u8(w, v) == write_all(w, to_le_bytes(v, 1))
write_u16(w, v) == write_all(w, to_le_bytes(v, 2))
write_i32(w, v) == write_all(w, to_le_bytes(v, 4))
write_u32(w, v) == write_all(w, to_le_bytes(v, 4))
write_f32(w, v) == write_all(w, to_le_bytes(v, 4))
\* write_usize: try_into() an i32, InvalidSave above i32::MAX
write_usize(w, v) ==
    IF w.err = "" /\ v > I32_MAX THEN [w EXCEPT !.err = "InvalidSave"] ELSE write_i32(w, v)
\* write_str
write_str(w, str) == write_all(write_usize(w, Len(str)), str)

RECURSIVE write_each(_, _, _, _)
RECURSIVE write_item(_, _, _)

\* write_peg_address
write_peg_address(w, address) ==
    write_i32(write_u32(write_u8(w, IF address.is_input THEN 1 ELSE 0),
                        address.component_address),
              address.peg_index)
\* The body of write's loop over the wires
write_wire(w, wire) ==
    write_f32(write_i32(write_peg_address(write_peg_address(w, wire.start_peg), wire.end_peg),
                        wire.circuit_state_id),
              wire.rotation)
\* The body of write's loop over the mods
write_mod(w, mod_info) ==
    write_each(write_str(w, mod_info.mod_id), mod_info.mod_version, 1, "i32")
\* The body of write's loop over the component types
write_component_type(w, component_type) ==
    write_str(write_u16(w, component_type.numeric_id), component_type.text_id)
\* custom_data: None is the i32 -1, Some(bytes) the length and the bytes
write_custom_data(w, custom_data) ==
    IF custom_data = None THEN write_i32(w, -1)
    ELSE write_all(write_usize(w, Len(Unwrap(custom_data))), Unwrap(custom_data))
\* The body of write's loop over the components
write_component(w, component) ==
    write_custom_data(
        write_each(write_usize(
            write_each(write_usize(
                write_each(
                    write_each(
                        write_u16(write_u32(write_u32(w, component.address), component.parent),
                                  component.type_id),
                        component.position, 1, "i32"),
                    component.rotation, 1, "i32"),
                Len(component.inputs)), component.inputs, 1, "i32"),
            Len(component.outputs)), component.outputs, 1, "i32"),
        component.custom_data)

\* The body of a loop of write over items of one kind
write_item(w, item, kind) ==
    CASE kind = "i32" -> write_i32(w, item)
      [] kind = "ModInfo" -> write_mod(w, item)
      [] kind = "ComponentType" -> write_component_type(w, item)
      [] kind = "Component" -> write_component(w, item)
      [] kind = "Wire" -> write_wire(w, item)
\* A loop of write over the items from the k-th on
write_each(w, items, k, kind) ==
    IF k > Len(items) THEN w
    ELSE CHOOSE done \in {write_each(written, items, k + 1, kind) :
                             written \in {write_item(w, items[k], kind)}} : TRUE

\* write up to the wires
write_wires(w, file) ==
    write_each(
        write_each(
            write_each(write_usize(
                write_each(write_usize(
                    write_usize(write_usize(
                        write_u8(write_each(write_u8(write_all(w, SAVE_HEADER), file.version),
                                            file.game_version, 1, "i32"),
                                 IF file.save_type = "World" THEN 1 ELSE 2),
                        Len(file.components)), Len(file.wires)),
                    Len(file.mods)), file.mods, 1, "ModInfo"),
                Len(file.component_types)), file.component_types, 1, "ComponentType"),
            file.components, 1, "Component"),
        file.wires, 1, "Wire")
\* write with a match on &self.circuit_states alone
write_circuit_states_unmatched(w, save_type, circuit_states) ==
    IF w.err # "" THEN w
    ELSE IF circuit_states.format = "WorldFormat"
    THEN write_all(write_usize(w, Len(circuit_states.circuit_states)),
                   circuit_states.circuit_states)
    ELSE write_each(write_usize(w, Len(circuit_states.on_states)),
                    circuit_states.on_states, 1, "i32")
\* write's match (self.save_type, &self.circuit_states)
write_circuit_states(w, save_type, circuit_states) ==
    IF w.err # "" THEN w
    ELSE IF save_type = "World" /\ circuit_states.format = "WorldFormat"
    THEN write_all(write_usize(w, Len(circuit_states.circuit_states)),
                   circuit_states.circuit_states)
    ELSE IF save_type = "Subassembly" /\ circuit_states.format = "SubassemblyFormat"
    THEN write_each(write_usize(w, Len(circuit_states.on_states)),
                    circuit_states.on_states, 1, "i32")
    ELSE [w EXCEPT !.err = "InvalidSave"]

\* BlotterFile::write of v5 and v6 (SAVE_VERSION is the file's version)
BlotterFile_write(file) ==
    write_all(write_circuit_states(write_wires(Writer_new, file),
                                   file.save_type, file.circuit_states),
              SAVE_FOOTER)

\* convert/v5v6.rs.  An f32 is held by its bits: sign, 8 bits of exponent,
\* 23 bits of mantissa.
f32_exponent(bits) == (bits \div F32_MANTISSA) % 256
f32_mantissa(bits) == bits % F32_MANTISSA
\* The f32 product x * 1000.0 of a normal x = significand * 2^(exponent - 150):
\* p = significand * 125 has at most 31 bits, and the product keeps its
\* leading 24, rounded to nearest, ties to even.
excess_bits(p) ==
    CHOOSE s \in 0..7 : /\ p \div (2 ^ s) < 2 * F32_MANTISSA
                        /\ (s = 0 \/ p \div (2 ^ (s - 1)) >= 2 * F32_MANTISSA)
round_ties_even(p, s) ==
    IF \/ (p % (2 ^ s)) * 2 > 2 ^ s
       \/ (p % (2 ^ s)) * 2 = 2 ^ s /\ (p \div (2 ^ s)) % 2 = 1
    THEN p \div (2 ^ s) + 1
    ELSE p \div (2 ^ s)
\* m * 2^e as i32 for m > 0: the cast truncates and saturates
scaled_as_i32(m, e) ==
    IF e >= 0
    THEN IF e > 30 \/ m > I32_MAX \div (2 ^ e) THEN I32_MAX ELSE m * (2 ^ e)
    ELSE IF e < -30 THEN 0 ELSE m \div (2 ^ (-e))
product_as_i32(p, s, exponent) ==
    scaled_as_i32(round_ties_even(p, s), s + exponent - 147)
negated_as_i32(magnitude) == IF magnitude = I32_MAX THEN -I32_MAX - 1 ELSE -magnitude
magnitude_as_i32(p, exponent) == product_as_i32(p, excess_bits(p), exponent)
\* (x * CONVERSION_FACTOR) as i32: NaN is 0, an infinity and every value
\* out of range saturates, a subnormal times 1000 is below 1
times_1000_as_i32(bits) ==
    IF f32_exponent(bits) = 255
    THEN IF f32_mantissa(bits) # 0 THEN 0 ELSE IF bits < 0 THEN -I32_MAX - 1 ELSE I32_MAX
    ELSE IF f32_exponent(bits) = 0 THEN 0
    ELSE IF bits < 0
    THEN negated_as_i32(magnitude_as_i32((F32_MANTISSA + f32_mantissa(bits)) * 125,
                                         f32_exponent(bits)))
    ELSE magnitude_as_i32((F32_MANTISSA + f32_mantissa(bits)) * 125, f32_exponent(bits))
\* floating_to_fixed_position
floating_to_fixed_position(position) ==
    [k \in DOMAIN position |-> times_1000_as_i32(position[k])]
\* A conversion that also drops the custom data
Component_from_bare(component) ==
    [component EXCEPT !.position = floating_to_fixed_position(component.position),
                      !.custom_data = None]
\* impl From<v5::Component> for v6::Component
Component_from(component) ==
    [component EXCEPT !.position = floating_to_fixed_position(component.position)]

\* impl From<v5::BlotterFile> for v6::BlotterFile
BlotterFile_from_v5(file) ==
    [file EXCEPT !.version = V6_SAVE_VERSION,
                 !.components = [k \in DOMAIN file.components |->
                                   Component_from(file.components[k])]]

-----------------------------------------------------------------------------
\* The state machine.

\* The sandbox held by the variables
SB ==
    [root_components |-> root_components,
     components |-> components,
     wires |-> wires,
     nets |-> nets,
     net_states |-> net_states,
     panicked |-> panicked]

Holds(T) ==
    /\ root_components = T.root_components
    /\ components = T.components
    /\ wires = T.wires
    /\ nets = T.nets
    /\ net_states = T.net_states
    /\ panicked = T.panicked

BecomesSandbox(T) ==
    /\ root_components' = T.root_components
    /\ components' = T.components
    /\ wires' = T.wires
    /\ nets' = T.nets
    /\ net_states' = T.net_states
    /\ panicked' = T.panicked
    /\ edits' = IF T = SB THEN edits ELSE edits + 1
    /\ UNCHANGED <<loaded, codec>>

\* A call that leaves the sandbox T and the table of component types as it
\* was: every operation but an add_component with a new type
Becomes(T) ==
    /\ BecomesSandbox(T)
    /\ UNCHANGED <<next_type, component_types>>

\* The model keeps the stores and the net count within the bounds
\* (a sandbox loaded with more nets than MaxNets may not grow further).
WithinBounds(T) ==
    /\ Len(T.components.entries) <= MaxComponents
    /\ Len(T.wires.entries) <= MaxWires
    /\ Len(T.nets) <= MaxNets \/ Len(T.nets) <= Len(nets)

\* One call of an edit operation that leaves the sandbox T
Call(T, bound) ==
    /\ panicked = ""
    /\ edits < bound
    /\ WithinBounds(T)
    /\ Becomes(T)

\* ComponentId, WireId have private fields: a caller can only pass handles
\* that some insert returned, live or stale.
ComponentIds == 0..(Len(components.entries) - 1)
WireIds == 0..(Len(wires.entries) - 1)
PegTypes == {"Input", "Output"}
\* The peg counts of the components that are added: up to two inputs and
\* one output.
InputCounts == 0..2
OutputCounts == 0..1
\* PegAddress has public fields: any peg type and index, in or out of range.
PegIndices == 0..2
PegAddresses ==
    {PegAddress(c, t, i) : c \in ComponentIds, t \in PegTypes, i \in PegIndices}

\* The orders in which a hash set of component ids can be iterated
Ranks ==
    {r \in [ComponentIds -> ComponentIds] : \A c, d \in ComponentIds : r[c] = r[d] => c = d}
IdentityRank == [c \in ComponentIds |-> c]
\* The iteration order is only observable when some children set has two members.
ChildOrders ==
    IF \E c \in ObjectStore_live(components) :
          Cardinality(Unwrap(ObjectStore_get(components, c)).children) >= 2
    THEN Ranks ELSE {IdentityRank}

\* The files a sandbox is built from in Spec.
FilePeg(peg_type, component_address, peg_index) ==
    [peg_type |-> peg_type, component_address |-> component_address,
     peg_index |-> peg_index]
FileComponent(address, parent, inputs, outputs) ==
    [address |-> address, parent |-> parent, inputs |-> inputs, outputs |-> outputs]
FileWire(start_peg, end_peg, circuit_state_id) ==
    [start_peg |-> start_peg, end_peg |-> end_peg, circuit_state_id |-> circuit_state_id]
FileByteValues == {0, 5}
FileCircuitStates ==
    {[format |-> "WorldFormat", bytes |-> [k \in 1..n |-> b]] :
        n \in 0..MaxFileBytes, b \in FileByteValues}
FileComponentSeqs ==
    {<<>>,
     <<FileComponent(1, 0, <<0, 1>>, <<2>>)>>,
     <<FileComponent(1, 0, <<0>>, <<>>), FileComponent(2, 1, <<0>>, <<1>>)>>}
FileWireSeqs ==
    {<<>>,
     <<FileWire(FilePeg("Input", 1, 0), FilePeg("Input", 2, 0), 0)>>,
     <<FileWire(FilePeg("Output", 1, 0), FilePeg("Input", 1, 0), 2)>>}
Files ==
    {[components |-> cs, wires |-> ws, circuit_states |-> st] :
        cs \in FileComponentSeqs, ws \in FileWireSeqs, st \in FileCircuitStates}

\* The sandbox has the component types of Sandbox::new()
DefaultTypes ==
    /\ next_type = with_meta_info(default_component_types_map).next_type
    /\ component_types = default_component_types_map

\* No caller of the codec takes part in the runs of the sandbox
NoCodec == [phase |-> "none"]

InitNew ==
    /\ Holds(Sandbox_new)
    /\ loaded = FALSE
    /\ edits = 0
    /\ codec = NoCodec
    /\ DefaultTypes

InitFile ==
    \E file \in Files :
        /\ Holds(Sandbox_from_file(file))
        /\ loaded = TRUE
        /\ edits = Len(file.components) + Len(file.wires)
        /\ codec = NoCodec
        /\ DefaultTypes

Init == InitNew \/ InitFile

AddComponent(parent, num_inputs, num_outputs) ==
    Call(add_component(SB, parent, num_inputs, num_outputs).sandbox, MaxEdits)

AddWire(addr_a, addr_b) ==
    Call(add_wire(SB, addr_a, addr_b).sandbox, MaxEdits)

RemoveWire(id) ==
    Call(remove_wire(SB, id), MaxEdits)

RemoveComponent(id, rank) ==
    Call(remove_component(SB, id, rank), MaxEdits)

Next ==
    \/ \E parent \in {None} \cup {Some(c) : c \in ComponentIds},
          num_inputs \in InputCounts, num_outputs \in OutputCounts :
          AddComponent(parent, num_inputs, num_outputs)
    \/ \E addr_a, addr_b \in PegAddresses : AddWire(addr_a, addr_b)
    \/ \E id \in WireIds : RemoveWire(id)
    \/ \E id \in ComponentIds : \E rank \in ChildOrders : RemoveComponent(id, rank)

Spec == Init /\ [][Next]_vars

\* SpecDeep: longer runs from Sandbox::new() with arguments from smaller
\* sets: root components of three shapes and addresses of existing pegs.
DeepShapes == {<<1, 0>>, <<2, 0>>, <<2, 1>>}
LivePegAddresses == {addr \in PegAddresses : get_peg(SB, addr) # None}

DeepAddComponent(num_inputs, num_outputs) ==
    Call(add_component(SB, None, num_inputs, num_outputs).sandbox, MaxDeepEdits)

DeepAddWire(addr_a, addr_b) ==
    Call(add_wire(SB, addr_a, addr_b).sandbox, MaxDeepEdits)

DeepRemoveWire(id) ==
    Call(remove_wire(SB, id), MaxDeepEdits)

DeepRemoveComponent(id) ==
    Call(remove_component(SB, id, IdentityRank), MaxDeepEdits)

NextDeep ==
    \/ \E shape \in DeepShapes : DeepAddComponent(shape[1], shape[2])
    \/ \E addr_a, addr_b \in LivePegAddresses : DeepAddWire(addr_a, addr_b)
    \/ \E id \in WireIds : DeepRemoveWire(id)
    \/ \E id \in ComponentIds : DeepRemoveComponent(id)

SpecDeep == InitNew /\ [][NextDeep]_vars

\* SpecTree: runs from Sandbox::new() that build and remove trees of
\* components: any issued handle, live or stale, as parent, components of
\* two shapes, wires between existing pegs.
MaxTreeEdits == 5       \* state-changing calls in one run (SpecTree)
TreeShapes == {<<0, 0>>, <<1, 0>>}

TreeAddComponent(parent, num_inputs, num_outputs) ==
    Call(add_component(SB, parent, num_inputs, num_outputs).sandbox, MaxTreeEdits)

TreeAddWire(addr_a, addr_b) ==
    Call(add_wire(SB, addr_a, addr_b).sandbox, MaxTreeEdits)

TreeRemoveWire(id) ==
    Call(remove_wire(SB, id), MaxTreeEdits)

TreeRemoveComponent(id, rank) ==
    Call(remove_component(SB, id, rank), MaxTreeEdits)

NextTree ==
    \/ \E parent \in {None} \cup {Some(c) : c \in ComponentIds}, shape \in TreeShapes :
          TreeAddComponent(parent, shape[1], shape[2])
    \/ \E addr_a, addr_b \in LivePegAddresses : TreeAddWire(addr_a, addr_b)
    \/ \E id \in WireIds : TreeRemoveWire(id)
    \/ \E id \in ComponentIds : \E rank \in ChildOrders : TreeRemoveComponent(id, rank)

SpecTree == InitNew /\ [][NextTree]_vars

\* SpecForest: runs from Sandbox::new() that only add and remove
\* components, with any issued handle, live or stale, as parent: forests
\* with several roots and children of children.
MaxForestEdits == 4         \* state-changing calls in one run (SpecForest)
MaxForestComponents == 4    \* entries of the component store (SpecForest)

\* One call of an edit operation of SpecForest that leaves the sandbox T
ForestCall(T) ==
    /\ panicked = ""
    /\ edits < MaxForestEdits
    /\ Len(T.components.entries) <= MaxForestComponents
    /\ Len(T.nets) <= MaxNets
    /\ Becomes(T)

ForestAddComponent(parent, num_inputs, num_outputs) ==
    ForestCall(add_component(SB, parent, num_inputs, num_outputs).sandbox)

ForestRemoveComponent(id, rank) ==
    ForestCall(remove_component(SB, id, rank))

NextForest ==
    \/ \E parent \in {None} \cup {Some(c) : c \in ComponentIds}, shape \in TreeShapes :
          ForestAddComponent(parent, shape[1], shape[2])
    \/ \E id \in ComponentIds : \E rank \in ChildOrders : ForestRemoveComponent(id, rank)

SpecForest == InitNew /\ [][NextForest]_vars

\* The version-agnostic entry point: the header, the version byte, then
\* the codec of that version; the value keeps its version.
any_version_checked(s, r) ==
    IF r.err # "" THEN r
    ELSE IF top(r) \in {V5_SAVE_VERSION, V6_SAVE_VERSION}
    THEN read_after_save_version(s, popped(r), top(r))
    ELSE failed(r, "IncompatibleVersion")
AnyBlotterFile_read(s) ==
    any_version_checked(s, read_u8(s, read_magic(s, Reader_new, SAVE_HEADER)))
\* migrate(): V5 to V6, the identity on V6
migrate(file) == IF file.version = V5_SAVE_VERSION THEN BlotterFile_from_v5(file) ELSE file

\* SpecCodec: a caller reads a stream with the reader of one version or
\* with the version-agnostic one, may set the public field save_type of the
\* file it got, may migrate the file, and writes it.  The streams are the
\* encodings of a few files of both versions, each also with one byte
\* replaced and cut after the version byte.
MutationBytes == {0, 254}
HeaderLen == Len(SAVE_HEADER) + 1
One == 127 * F32_MANTISSA   \* the bits of 1.0f32
MinusOneAndHalf == (127 * F32_MANTISSA + F32_MANTISSA \div 2) - I32_MAX - 1  \* the bits of -1.5f32
CodecComponent(address, parent, inputs, outputs, custom_data) ==
    [address |-> address, parent |-> parent, type_id |-> 2,
     position |-> <<One, MinusOneAndHalf, 0>>, rotation |-> <<0, 0, 0, One>>,
     inputs |-> inputs, outputs |-> outputs, custom_data |-> custom_data]
CodecFile(version, save_type, mods, types, cs, ws, circuit_states) ==
    [version |-> version, game_version |-> <<0, 9, 0, 1>>, save_type |-> save_type,
     mods |-> mods, component_types |-> types, components |-> cs,
     wires |-> ws, circuit_states |-> circuit_states]
CodecFiles(version) ==
    {CodecFile(version, "World", <<>>, <<>>, <<>>, <<>>,
               [format |-> "WorldFormat", circuit_states |-> <<>>]),
     CodecFile(version, "World",
               <<[mod_id |-> <<97>>, mod_version |-> <<1, 0, 0, 0>>]>>,
               <<[numeric_id |-> 2, text_id |-> <<98, 195, 169>>]>>,
               <<CodecComponent(1, 0, <<0>>, <<>>, None),
                 CodecComponent(2, 1, <<>>, <<1>>, Some(<<>>))>>,
               <<[start_peg |-> [is_input |-> FALSE, component_address |-> 2, peg_index |-> 0],
                  end_peg |-> [is_input |-> TRUE, component_address |-> 1, peg_index |-> 0],
                  circuit_state_id |-> 1, rotation |-> One]>>,
               [format |-> "WorldFormat", circuit_states |-> <<2>>]),
     CodecFile(version, "Subassembly", <<>>, <<>>,
               <<CodecComponent(1, 0, <<0>>, <<>>, Some(<<7>>))>>, <<>>,
               [format |-> "SubassemblyFormat", on_states |-> <<0>>])}
\* A stream, and the stream with one byte replaced
Mutated(s) == {s} \cup {[s EXCEPT ![p] = b] : p \in 1..Len(s), b \in MutationBytes}
EncodedStreams ==
    UNION {Mutated(BlotterFile_write(file).bytes) :
              file \in CodecFiles(V5_SAVE_VERSION) \cup CodecFiles(V6_SAVE_VERSION)}
Streams == EncodedStreams \cup {SubSeq(s, 1, HeaderLen) : s \in EncodedStreams}
\* The readers a caller can use: of v5, of v6, version-agnostic
Readers == {"v5", "v6", "any"}
Codec_read(s, reader) ==
    IF reader = "v5" THEN BlotterFile_read(s, V5_SAVE_VERSION)
    ELSE IF reader = "v6" THEN BlotterFile_read(s, V6_SAVE_VERSION)
    ELSE AnyBlotterFile_read(s)

InitCodec ==
    /\ Holds(Sandbox_new)
    /\ loaded = FALSE
    /\ edits = 0
    /\ DefaultTypes
    /\ \E s \in Streams :
          codec = [phase |-> "stream", stream |-> s, reader |-> "", err |-> "", pos |-> 1,
                   original |-> None, file |-> None, edited |-> FALSE, migrated |-> FALSE,
                   out |-> Writer_new]

\* The caller got the reader r back from read
CodecGot(reader, r) ==
    /\ codec.phase = "stream"
    /\ codec' = [codec EXCEPT !.phase = "read", !.reader = reader, !.err = r.err,
                              !.pos = r.pos,
                              !.original = IF r.err = "" THEN Some(top(r)) ELSE None,
                              !.file = IF r.err \in {"", "IncompatibleVersion"}
                                       THEN Some(top(r)) ELSE None]
    /\ UNCHANGED <<root_components, components, wires, nets, net_states, panicked, loaded, edits,
                 next_type, component_types>>
CodecRead(reader) == CodecGot(reader, Codec_read(codec.stream, reader))

\* file.save_type = save_type
CodecSetSaveType(save_type) ==
    /\ codec.phase = "read"
    /\ codec.err = ""
    /\ ~codec.edited
    /\ Unwrap(codec.file).save_type # save_type
    /\ codec' = [codec EXCEPT !.file = Some([Unwrap(codec.file) EXCEPT !.save_type = save_type]),
                              !.edited = TRUE]
    /\ UNCHANGED <<root_components, components, wires, nets, net_states, panicked, loaded, edits,
                 next_type, component_types>>

\* file = file.migrate()
CodecMigrate ==
    /\ codec.phase = "read"
    /\ codec.err = ""
    /\ ~codec.migrated
    /\ codec' = [codec EXCEPT !.file = Some(migrate(Unwrap(codec.file))), !.migrated = TRUE]
    /\ UNCHANGED <<root_components, components, wires, nets, net_states, panicked, loaded, edits,
                 next_type, component_types>>

\* file.write(&mut out)
CodecWrite ==
    /\ codec.phase = "read"
    /\ codec.err = ""
    /\ codec' = [codec EXCEPT !.phase = "written",
                              !.out = BlotterFile_write(Unwrap(codec.file))]
    /\ UNCHANGED <<root_components, components, wires, nets, net_states, panicked, loaded, edits,
                 next_type, component_types>>

NextCodec ==
    \/ \E reader \in Readers : CodecRead(reader)
    \/ \E save_type \in {"World", "Subassembly"} : CodecSetSaveType(save_type)
    \/ CodecMigrate
    \/ CodecWrite

SpecCodec == InitCodec /\ [][NextCodec]_vars

\* SpecDense: the DenseStore<NetInfo> on its own, as a caller of the store
\* alone drives it: insert of any of a few distinct items, remove of any
\* index in or out of range.  The store is the variable nets; the rest of
\* the sandbox stays as Sandbox::new() left it.
MaxDenseLen == 4        \* items in the store (SpecDense)
MaxDenseItems == 3      \* distinct items that are inserted (SpecDense)
DenseItems == {[wires |-> {k}, pegs |-> {}] : k \in 0..(MaxDenseItems - 1)}
DenseIndices == 0..(Len(nets) + 1)

DenseInsert(item) ==
    /\ Len(nets) < MaxDenseLen
    /\ nets' = DenseStore_insert(nets, item).items
    /\ UNCHANGED <<root_components, components, wires, net_states, panicked, loaded, edits, codec,
                 next_type, component_types>>

DenseRemove(index) ==
    /\ nets' = DenseStore_remove(nets, index).items
    /\ UNCHANGED <<root_components, components, wires, net_states, panicked, loaded, edits, codec,
                 next_type, component_types>>

NextDense ==
    \/ \E item \in DenseItems : DenseInsert(item)
    \/ \E index \in DenseIndices : DenseRemove(index)

SpecDense == InitNew /\ [][NextDense]_vars

\* SpecTypes: add_component with any of a few type strings on a sandbox
\* made by Sandbox::new() or loaded from a file without components whose
\* table of component types is injective.
MaxTypeEdits == 3       \* calls of add_component (SpecTypes)
TextIds == {"MHG.Inverter", "MHG.PanelKey", "a", "b", "c"}
TypeTables ==
    {default_component_types_map,
     [s \in {} |-> 0],
     [s \in {"a", "MHG.Delayer"} |-> IF s = "a" THEN 5 ELSE 3],
     [s \in {"b"} |-> U16_MAX]}
\* The type fields of the sandbox
TB == [next_type |-> next_type, component_types |-> component_types]

InitTypes ==
    \E types \in TypeTables :
        /\ Holds(Sandbox_new)
        /\ loaded = (types # default_component_types_map)
        /\ edits = 0
        /\ codec = [phase |-> "none"]
        /\ next_type = with_meta_info(types).next_type
        /\ component_types = with_meta_info(types).component_types

\* add_component of a root component with the type id: get_component_type,
\* then the nets and the component
TypesAddComponent(id, num_inputs, overflow_checks) ==
    /\ panicked = ""
    /\ edits < MaxTypeEdits
    /\ BecomesSandbox(IF get_component_type(TB, id, overflow_checks).panicked # ""
                      THEN Panic(SB, get_component_type(TB, id, overflow_checks).panicked)
                      ELSE add_component(SB, None, num_inputs, 0).sandbox)
    /\ next_type' = get_component_type(TB, id, overflow_checks).next_type
    /\ component_types' = get_component_type(TB, id, overflow_checks).component_types

NextTypes ==
    \E id \in TextIds, num_inputs \in 0..1, overflow_checks \in BOOLEAN :
        TypesAddComponent(id, num_inputs, overflow_checks)

SpecTypes == InitTypes /\ [][NextTypes]_vars

-----------------------------------------------------------------------------
\* The serializer (src/sandbox/serialize.rs, "impl From<&Sandbox> for
\* BlotterFile").  A hash set is iterated in an order the program does not
\* control: rank gives every component id its position in that order.

\* The first element of a hash set in the iteration order given by rank
least_rank(set, rank) == CHOOSE c \in set : \A d \in set : rank[c] <= rank[d]

RECURSIVE in_order(_, _)
\* The elements of a hash set as the sequence its iterator yields
in_order(set, rank) ==
    IF set = {} THEN <<>>
    ELSE <<least_rank(set, rank)>> \o in_order(set \ {least_rank(set, rank)}, rank)

\* Serializer::new: addresses are handed out from 1
Serializer_new == [next_component_id |-> 1, component_id_map |-> [c \in {} |-> 0]]

\* Serializer::register_component: id gets the next address
Serializer_register_component(ser, id) ==
    [next_component_id |-> ser.next_component_id + 1,
     component_id_map |-> [c \in DOMAIN ser.component_id_map \cup {id} |->
                             IF c = id THEN ser.next_component_id
                             ELSE ser.component_id_map[c]]]

\* Serializer::get_component: ok is FALSE when component_id_map[&id] panics
Serializer_get_component(ser, id) ==
    [ok |-> id \in DOMAIN ser.component_id_map,
     address |-> IF id \in DOMAIN ser.component_id_map
                 THEN ser.component_id_map[id] ELSE 0]

\* The ComponentInfo of a live component
stored_component(S, id) == S.components.entries[id + 1].item

\* Serializer::serialize_component, after register_component(id) has given
\* the component its address and left the serializer as ser
serialize_component_registered(ser, address, info) ==
    [ok |-> info.parent = None \/ Serializer_get_component(ser, Unwrap(info.parent)).ok,
     ser |-> ser,
     component |-> FileComponent(
                       address,
                       IF info.parent = None THEN 0
                       ELSE Serializer_get_component(ser, Unwrap(info.parent)).address,
                       [k \in DOMAIN info.inputs |-> info.inputs[k].net_id],
                       [k \in DOMAIN info.outputs |-> info.outputs[k].net_id])]

\* Serializer::serialize_component: the struct literal evaluates address
\* (register_component) before parent (get_component)
serialize_component(ser, id, info) ==
    serialize_component_registered(Serializer_register_component(ser, id),
                                   ser.next_component_id, info)

\* serialize_visit with the component put in front of the components
\* serialized before it
serialize_visit_prepend(d, children, c) ==
    IF ~c.ok
    THEN [d EXCEPT !.status = "serialize_component: component_id_map[&parent]"]
    ELSE [status |-> "",
          stack |-> SubSeq(d.stack, 1, Len(d.stack) - 1) \o children,
          ser |-> c.ser,
          components |-> <<c.component>> \o d.components]

\* The body of the loop once the popped component was found: its children
\* are pushed, then the component is serialized and appended
serialize_visit(d, children, c) ==
    IF ~c.ok
    THEN [d EXCEPT !.status = "serialize_component: component_id_map[&parent]"]
    ELSE [status |-> "",
          stack |-> SubSeq(d.stack, 1, Len(d.stack) - 1) \o children,
          ser |-> c.ser,
          components |-> Append(d.components, c.component)]

\* One iteration of "while let Some(component_id) = stack.pop()"
serialize_pop(S, rank, d, id) ==
    IF ~ObjectStore_has(S.components, id)
    THEN [d EXCEPT !.status = "serialize: components.get(component_id).unwrap()"]
    ELSE serialize_visit(d, in_order(stored_component(S, id).children, rank),
                         serialize_component(d.ser, id, stored_component(S, id)))

\* A traversal of a forest pops every component once for each root above
\* it, so more than Len(entries)^2 pops mean that the stack is refilled by
\* a cycle of children and the loop never ends.
serialize_fuel(S) == Len(S.components.entries) * Len(S.components.entries)

RECURSIVE serialize_components(_, _, _, _)
\* The loop over the stack
serialize_components(S, rank, d, fuel) ==
    IF d.status # "" \/ d.stack = <<>> THEN d
    ELSE IF fuel = 0 THEN [d EXCEPT !.status = "serialize: the loop never ends"]
    ELSE serialize_components(S, rank, serialize_pop(S, rank, d, d.stack[Len(d.stack)]),
                              fuel - 1)

\* Serializer::serialize_peg_address
serialize_peg_address(ser, addr) ==
    [ok |-> Serializer_get_component(ser, addr.component).ok,
     addr |-> FilePeg(addr.peg_type,
                      Serializer_get_component(ser, addr.component).address,
                      addr.peg_index)]

\* Serializer::serialize_wire
serialize_wire(ser, info) ==
    [ok |-> serialize_peg_address(ser, info.a).ok
            /\ serialize_peg_address(ser, info.b).ok,
     wire |-> FileWire(serialize_peg_address(ser, info.a).addr,
                       serialize_peg_address(ser, info.b).addr,
                       info.net_id)]

RECURSIVE serialize_wires(_, _, _)
\* sandbox.wires.iter().map(serialize_wire).collect(): the live entries
\* from address k on, in address order
serialize_wires(S, ser, k) ==
    IF k > Len(S.wires.entries) THEN [ok |-> TRUE, wires |-> <<>>]
    ELSE IF S.wires.entries[k].tag # "Occupied" THEN serialize_wires(S, ser, k + 1)
    ELSE [ok |-> serialize_wire(ser, S.wires.entries[k].item).ok
                 /\ serialize_wires(S, ser, k + 1).ok,
          wires |-> <<serialize_wire(ser, S.wires.entries[k].item).wire>>
                    \o serialize_wires(S, ser, k + 1).wires]

RECURSIVE byte_value(_, _, _)
\* The byte whose bits i.. are the elements 8 * j + i.. of the bit vector;
\* set_uninitialized(false) clears the bits behind its end
byte_value(bits, j, i) ==
    IF i = BitsPerByte THEN 0
    ELSE (IF BitsPerByte * j + i + 1 <= Len(bits) /\ bits[BitsPerByte * j + i + 1]
          THEN 2 ^ i ELSE 0)
         + byte_value(bits, j, i + 1)

\* BitVec::into_vec
BitVec_into_vec(bits) ==
    [j \in 1..((Len(bits) + BitsPerByte - 1) \div BitsPerByte) |->
        byte_value(bits, j - 1, 0)]

\* The file built from the serialized components
BlotterFile_of(S, d, ws) ==
    [status |-> IF d.status # "" THEN d.status
                ELSE IF ~ws.ok THEN "serialize_peg_address: component_id_map[&component]"
                ELSE "",
     ser |-> d.ser,
     file |-> [components |-> d.components,
               wires |-> ws.wires,
               circuit_states |-> [format |-> "WorldFormat",
                                   bytes |-> BitVec_into_vec(S.net_states)]]]

\* The wires are serialized with the map the components left
BlotterFile_wires(S, d) ==
    BlotterFile_of(S, d, IF d.status = "" THEN serialize_wires(S, d.ser, 1)
                         ELSE [ok |-> TRUE, wires |-> <<>>])

\* impl From<&Sandbox> for BlotterFile.  status is "" when the conversion
\* returns, and says where it panics or hangs otherwise.
BlotterFile_from(S, rank) ==
    BlotterFile_wires(S,
        serialize_components(S, rank,
            [status |-> "", stack |-> in_order(S.root_components, rank),
             ser |-> Serializer_new, components |-> <<>>],
            serialize_fuel(S)))

\* The component_id_map of the deserializer after the components of a file
Deserializer_map(file) == load_file_components(file).map

-----------------------------------------------------------------------------
\* The invariants of the sandbox.

LiveWires == ObjectStore_live(wires)
wire_info(w) == wires.entries[w + 1].item
peg_info(addr) == Unwrap(get_peg(SB, addr))
\* The net ids held by live pegs and live wires
ReferencedNets ==
    {peg_info(addr).net_id : addr \in LivePegAddresses}
    \cup {wire_info(w).net_id : w \in LiveWires}
\* A state between operations of a sandbox made by Sandbox::new()
FromNew == ~loaded /\ panicked = ""

\* The live wires whose endpoints are both input pegs
InputWires ==
    {w \in LiveWires :
        wire_info(w).a.peg_type = "Input" /\ wire_info(w).b.peg_type = "Input"}
\* The pegs one input wire away from the pegs P, and P
InputReachStep(P) ==
    P \cup {wire_info(w).b : w \in {v \in InputWires : wire_info(v).a \in P}}
      \cup {wire_info(w).a : w \in {v \in InputWires : wire_info(v).b \in P}}
\* The pegs joined to the pegs P by a path of input wires
RECURSIVE InputReach(_)
InputReach(P) ==
    IF InputReachStep(P) = P THEN P ELSE InputReach(InputReachStep(P))

\* C1: from Sandbox::new(), after any add_component, add_wire, remove_wire,
\* remove_component, NetInfo.pegs of net n is exactly the set of live pegs
\* whose net_id is n, and NetInfo.wires of net n is exactly the set of live
\* wires whose net_id is n.
C1_NetStoreAgrees ==
    FromNew =>
        \A n \in DOMAIN nets :
            /\ nets[n].pegs =
                  {addr \in LivePegAddresses : peg_info(addr).net_id = n - 1}
            /\ nets[n].wires = {w \in LiveWires : wire_info(w).net_id = n - 1}

\* C2: from Sandbox::new(), the wires set of a live peg is exactly the set
\* of live wires that have the peg's address as endpoint a or b.
C2_PegWiresAgree ==
    FromNew =>
        \A addr \in LivePegAddresses :
            peg_info(addr).wires =
                {w \in LiveWires : wire_info(w).a = addr \/ wire_info(w).b = addr}

\* A live wire between two pegs is in the wire sets of both, in a sandbox
\* where a wire and a component have been removed.
C2_Witness ==
    /\ FromNew
    /\ \E w \in LiveWires :
          /\ wire_info(w).a # wire_info(w).b
          /\ w \in peg_info(wire_info(w).a).wires
          /\ w \in peg_info(wire_info(w).b).wires
    /\ \E v \in WireIds : v \notin LiveWires
    /\ \E c \in ComponentIds : c \notin ObjectStore_live(components)

\* C3: two distinct live pegs with the same NetId are joined by a path of
\* live wires whose endpoints are both input pegs.
C3_SameNetImpliesInputPath ==
    FromNew =>
        \A p, q \in LivePegAddresses :
            (p # q /\ peg_info(p).net_id = peg_info(q).net_id)
                => q \in InputReach({p})

\* C4: two live input pegs joined by a path of live wires whose endpoints are
\* all input pegs have the same NetId.
C4_InputPathImpliesSameNet ==
    FromNew =>
        \A p \in {a \in LivePegAddresses : a.peg_type = "Input"} :
            \A q \in InputReach({p}) \cap LivePegAddresses :
                peg_info(p).net_id = peg_info(q).net_id

\* C5: no other peg, input or output, has the NetId of an output peg.
C5_OutputNetPrivate ==
    FromNew =>
        \A p, q \in LivePegAddresses :
            (p # q /\ p.peg_type = "Output")
                => peg_info(p).net_id # peg_info(q).net_id

\* C6: the endpoint pegs of a live wire, neither of them an output peg, have
\* the same net_id.
C6_WireEndpointsSameNet ==
    panicked = "" =>
        \A w \in InputWires :
            (get_peg(SB, wire_info(w).a) # None /\ get_peg(SB, wire_info(w).b) # None)
                => peg_info(wire_info(w).a).net_id = peg_info(wire_info(w).b).net_id

\* C7: between operations, and after a load from a file, every net of the
\* net store has size |wires| + |pegs| > 0.
C7_NoEmptyNets ==
    panicked = "" => \A n \in DOMAIN nets : size(nets[n]) > 0

\* C8: the set of net ids held by live pegs and live wires is exactly
\* {0, ..., |nets| - 1}.
C8_NetCompactness ==
    FromNew => ReferencedNets = 0..(Len(nets) - 1)

\* C9: between operations, also in a sandbox built from a WorldFormat file,
\* net_states has as many bits as the net store has nets, and the length
\* assertions of make_net and remove_net never fail.
C9_NetStatesLength ==
    /\ panicked # "make_net: assert_eq"
    /\ panicked # "remove_net: assert_eq"
    /\ panicked = "" => Len(net_states) = Len(nets)

\* A sandbox built from a file, which starts with BitsPerByte nets per byte,
\* has since had nets added by make_net or removed by remove_net, and has
\* one bit per net.
C9_Witness ==
    /\ loaded
    /\ panicked = ""
    /\ Len(nets) % BitsPerByte # 0
    /\ Len(net_states) = Len(nets)

\* C10: root_components is exactly the set of live components whose parent
\* is none.
C10_RootComponents ==
    FromNew =>
        root_components =
            {c \in ObjectStore_live(components) :
                Unwrap(ObjectStore_get(components, c)).parent = None}

\* The live components
LiveComponents == ObjectStore_live(components)
component_info(c) == components.entries[c + 1].item

\* C11: every id in a live component's children set names a live component
\* whose parent is that component, and every live component with parent p
\* is in the children set of p.
C11_ChildrenAgree ==
    panicked = "" =>
        /\ \A p \in LiveComponents : \A c \in component_info(p).children :
              c \in LiveComponents /\ component_info(c).parent = Some(p)
        /\ \A c \in LiveComponents :
              component_info(c).parent # None =>
                  /\ Unwrap(component_info(c).parent) \in LiveComponents
                  /\ c \in component_info(Unwrap(component_info(c).parent)).children

\* A live component is in the children set of its live parent, in a sandbox
\* where a component has been removed.
C11_Witness ==
    /\ panicked = ""
    /\ \E c \in LiveComponents :
          /\ component_info(c).parent # None
          /\ Unwrap(component_info(c).parent) \in LiveComponents \ {c}
          /\ c \in component_info(Unwrap(component_info(c).parent)).children
    /\ \E c \in ComponentIds : c \notin LiveComponents

\* C12: every ComponentId handed out by add_component or by a load has a
\* nonzero underlying value.  The id of a component is the address that
\* ObjectStore::insert returned for it, so no live component is at address 0.
C12_NonzeroComponentId ==
    panicked = "" => \A c \in LiveComponents : c # 0

\* The components of D and their children
DescendantsStep(D) == D \cup UNION {component_info(c).children : c \in D \cap LiveComponents}
\* The components of D and all their descendants (children, recursively)
RECURSIVE Descendants(_)
Descendants(D) ==
    IF DescendantsStep(D) = D THEN D ELSE Descendants(DescendantsStep(D))

\* In the sandbox T no component of the set D is live and no live wire has
\* an endpoint on a peg of a component of D.
Absent(T, D) ==
    /\ \A d \in D : ~ObjectStore_has(T.components, d)
    /\ \A w \in ObjectStore_live(T.wires) :
          /\ T.wires.entries[w + 1].item.a.component \notin D
          /\ T.wires.entries[w + 1].item.b.component \notin D

\* C13: for every live component c, when remove_component(c) returns, c and
\* all its descendants are absent from the component store and no live wire
\* has an endpoint on a peg of a removed component.
C13_Cascade ==
    panicked = "" =>
        \A c \in LiveComponents : \A rank \in ChildOrders :
            remove_component(SB, c, rank).panicked = ""
                => Absent(remove_component(SB, c, rank), Descendants({c}))

\* A live component with a child, and a live wire between a peg of the
\* component and a peg of the child, whose removal returns.
C13_Witness ==
    /\ panicked = ""
    /\ \E c \in LiveComponents :
          /\ component_info(c).children \ {c} # {}
          /\ \E w \in LiveWires :
                /\ wire_info(w).a.component = c
                /\ wire_info(w).b.component \in component_info(c).children \ {c}
          /\ remove_component(SB, c, IdentityRank).panicked = ""

\* The handles a caller can hold: the issued ones and one never issued
AnyWireIds == 0..Len(wires.entries)
AnyComponentIds == 0..Len(components.entries)

\* C14: remove_wire(id) and remove_component(id) with an id that names no
\* live item return and leave the sandbox unchanged; a removal that returns,
\* done a second time with the same id, changes nothing more.
C14_RemoveIdempotent ==
    panicked = "" =>
        /\ \A id \in AnyWireIds \ LiveWires : remove_wire(SB, id) = SB
        /\ \A id \in AnyComponentIds \ LiveComponents : \A rank \in ChildOrders :
              remove_component(SB, id, rank) = SB
        /\ \A id \in LiveWires :
              remove_wire(remove_wire(SB, id), id) = remove_wire(SB, id)
        /\ \A id \in LiveComponents : \A rank \in ChildOrders :
              remove_component(remove_component(SB, id, rank), id, rank)
                  = remove_component(SB, id, rank)

\* A wire and a component have been removed, so their handles name no live
\* item, and a live component is left.
C14_Witness ==
    /\ panicked = ""
    /\ \E id \in WireIds : id \notin LiveWires
    /\ \E id \in ComponentIds : id \notin LiveComponents
    /\ LiveComponents # {}

\* The peg addresses a caller can pass: any component handle, issued or
\* not, any peg type, any index in or out of range.
AnyPegAddresses ==
    {PegAddress(c, t, i) : c \in AnyComponentIds, t \in PegTypes, i \in PegIndices}
\* Result<WireId, AddWireError>::Err(InvalidPegAddress) with the sandbox S
ErrInvalidPegAddress(S) == [sandbox |-> S, ok |-> FALSE, wire_ids |-> {}]

\* C15: add_wire(a, b) returns Err(InvalidPegAddress) and leaves the sandbox
\* as it was when a and b are both output pegs or when a or b does not
\* resolve to a live peg.
C15_AddWireError ==
    panicked = "" =>
        \A a, b \in AnyPegAddresses :
            (\/ a.peg_type = "Output" /\ b.peg_type = "Output"
             \/ get_peg(SB, a) = None
             \/ get_peg(SB, b) = None)
                => add_wire(SB, a, b) = ErrInvalidPegAddress(SB)

\* A sandbox from Sandbox::new() with a live output peg, a live input peg
\* and a removed component: every kind of invalid address can be passed.
C15_Witness ==
    /\ FromNew
    /\ \E a \in LivePegAddresses : a.peg_type = "Output"
    /\ \E a \in LivePegAddresses : a.peg_type = "Input"
    /\ \E c \in ComponentIds : c \notin LiveComponents

\* Result<WireId, AddWireError>::Ok(id) with the sandbox S
OkWire(S, id) == [sandbox |-> S, ok |-> TRUE, wire_ids |-> {id}]

\* C16: when a live wire joins the pegs a and b, in either orientation,
\* add_wire(a, b) returns the id of that wire and no other, and leaves the
\* sandbox unchanged.
C16_ExistingWire ==
    panicked = "" =>
        \A w \in LiveWires :
            /\ add_wire(SB, wire_info(w).a, wire_info(w).b) = OkWire(SB, w)
            /\ add_wire(SB, wire_info(w).b, wire_info(w).a) = OkWire(SB, w)

\* C17: a handle that insert returned and that was later removed is never
\* returned by a later insert on the same store: no step makes a vacant
\* entry of the component store or of the wire store occupied again.
C17_NoReissue ==
    [][/\ \A c \in ComponentIds \ LiveComponents : ~ObjectStore_has(components', c)
       /\ \A w \in WireIds \ LiveWires : ~ObjectStore_has(wires', w)]_vars

\* insert on a store of n items returns index n and moves no item
DenseInsertContract(items, item) ==
    /\ DenseStore_insert(items, item).index = Len(items)
    /\ Len(DenseStore_insert(items, item).items) = Len(items) + 1
    /\ DenseStore_insert(items, item).items[Len(items) + 1] = item
    /\ \A k \in 1..Len(items) : DenseStore_insert(items, item).items[k] = items[k]

\* remove(i), i < n: the item at i is returned with the rename
\* {src: n-1, dest: i}; the item formerly at n-1 is at i (when i # n-1);
\* every other item is at its index; the length is n-1.
DenseRemoveContract(items, i) ==
    /\ DenseStore_remove(items, i).removed = Some(items[i + 1])
    /\ DenseStore_remove(items, i).rename = [src |-> Len(items) - 1, dest |-> i]
    /\ Len(DenseStore_remove(items, i).items) = Len(items) - 1
    /\ i # Len(items) - 1 => DenseStore_remove(items, i).items[i + 1] = items[Len(items)]
    /\ \A k \in 0..(Len(items) - 2) :
          k # i => DenseStore_remove(items, i).items[k + 1] = items[k + 1]

\* C18: the contract of the dense store: insert returns index n and moves
\* nothing; remove(i) with i < n swap-removes and returns the item with the
\* rename {src: n-1, dest: i}; remove(i) with i >= n returns None and
\* changes nothing; the valid indices are exactly [0, len).
C18_DenseStoreContract ==
    /\ \A item \in DenseItems : DenseInsertContract(nets, item)
    /\ \A i \in DenseIndices :
          IF i < Len(nets) THEN DenseRemoveContract(nets, i)
          ELSE /\ DenseStore_remove(nets, i).removed = None
               /\ DenseStore_remove(nets, i).items = nets
    /\ \A i \in DenseIndices : DenseStore_get(nets, i) # None <=> i < Len(nets)

\* A full store whose first, second and last items differ, so that a
\* swap-remove and a shifting remove leave different stores.
C18_Witness ==
    /\ Len(nets) = MaxDenseLen
    /\ nets[1] # nets[Len(nets)]
    /\ nets[2] # nets[Len(nets)]
    /\ nets[1] \in DenseItems

\* The live pegs of sandbox S
pegs_of(S) == {addr \in PegAddresses : get_peg(S, addr) # None}
\* The renaming of component ids a round trip makes: the serializer gives a
\* component its file address, the deserializer gives the address a new id
Renaming(f) ==
    [c \in DOMAIN f.ser.component_id_map |->
        Deserializer_map(f.file)[f.ser.component_id_map[c]]]
renamed_peg(rho, addr) == PegAddress(rho[addr.component], addr.peg_type, addr.peg_index)
\* The pairs of pegs joined by the live wires of S
wire_ends(S) ==
    {<<S.wires.entries[w + 1].item.a, S.wires.entries[w + 1].item.b>> :
        w \in ObjectStore_live(S.wires)}

\* Sandbox T has the components, wires and nets of sandbox S up to the
\* renaming rho of component ids
SameUpTo(S, T, rho) ==
    /\ DOMAIN rho = ObjectStore_live(S.components)
    /\ \A c, d \in DOMAIN rho : rho[c] = rho[d] => c = d
    /\ {rho[c] : c \in DOMAIN rho} = ObjectStore_live(T.components)
    /\ \A c \in DOMAIN rho :
          /\ stored_component(T, rho[c]).parent
                = (IF stored_component(S, c).parent = None THEN None
                   ELSE IF Unwrap(stored_component(S, c).parent) \in DOMAIN rho
                   THEN Some(rho[Unwrap(stored_component(S, c).parent)])
                   ELSE Some(-1))
          /\ Len(stored_component(T, rho[c]).inputs) = Len(stored_component(S, c).inputs)
          /\ Len(stored_component(T, rho[c]).outputs) = Len(stored_component(S, c).outputs)
    /\ Cardinality(ObjectStore_live(T.wires)) = Cardinality(ObjectStore_live(S.wires))
    /\ wire_ends(T) = {<<renamed_peg(rho, e[1]), renamed_peg(rho, e[2])>> : e \in wire_ends(S)}
    /\ \A p, q \in pegs_of(S) :
          (Unwrap(get_peg(S, p)).net_id = Unwrap(get_peg(S, q)).net_id)
          <=> (Unwrap(get_peg(T, renamed_peg(rho, p))).net_id
               = Unwrap(get_peg(T, renamed_peg(rho, q))).net_id)

\* The file f is loaded into sandbox T, which equals S up to renaming
RoundTripLoaded(S, f, T) == T.panicked = "" /\ SameUpTo(S, T, Renaming(f))
\* The conversion of S to a file returns f, and f loads into an equal sandbox
RoundTrip(S, f) == f.status = "" /\ RoundTripLoaded(S, f, Sandbox_from_file(f.file))

\* C19: for every sandbox reachable from Sandbox::new() by the public
\* operations, and every iteration order of the hash sets, the conversion
\* to a BlotterFile and back completes and yields a sandbox with the same
\* components (up to renaming of ids, with the same parent relation and peg
\* counts), the same wires and the same partition of the pegs into nets.
C19_SerializeRoundTrip ==
    FromNew => \A rank \in Ranks : RoundTrip(SB, BlotterFile_from(SB, rank))

\* The addresses and parents of the components of a file are well formed
\* for sandbox S, whose component c was given address map[c]
FileWellFormed(S, cs, map) ==
    /\ \A i, j \in DOMAIN cs : cs[i].address = cs[j].address => i = j
    /\ \A i \in DOMAIN cs : cs[i].address # 0
    /\ \A c \in DOMAIN map :
          stored_component(S, c).parent = None
          => \E i \in DOMAIN cs : cs[i].address = map[c] /\ cs[i].parent = 0
    /\ \A i \in DOMAIN cs :
          cs[i].parent # 0 => \E j \in 1..(i - 1) : cs[j].address = cs[i].parent
\* The result f of a conversion that returned is well formed
ProducedWellFormed(S, f) ==
    f.status = "" => FileWellFormed(S, f.file.components, f.ser.component_id_map)

\* C20: in the file produced from a reachable sandbox, whatever the
\* iteration order of the hash sets, the component addresses are distinct
\* and nonzero, a component without parent has parent 0, and every nonzero
\* parent address is the address of a component earlier in the sequence.
C20_ParentBeforeChild ==
    panicked = "" => \A rank \in Ranks : ProducedWellFormed(SB, BlotterFile_from(SB, rank))
\* A file is produced that holds two roots and a child of a child
ProducedDeep(f) ==
    /\ f.status = ""
    /\ \E i, j \in DOMAIN f.file.components :
          i # j /\ f.file.components[i].parent = 0 /\ f.file.components[j].parent = 0
    /\ \E i, j \in DOMAIN f.file.components :
          /\ f.file.components[i].parent = f.file.components[j].address
          /\ f.file.components[j].parent # 0
C20_Witness ==
    panicked = "" /\ \E rank \in Ranks : ProducedDeep(BlotterFile_from(SB, rank))

\* The component of a file that a file peg address names, if any
file_peg_components(file, peg) ==
    {i \in DOMAIN file.components : file.components[i].address = peg.component_address}
\* The circuit state ids the file gives the peg a file peg address names
file_peg_states(file, peg) ==
    {(IF peg.peg_type = "Input" THEN file.components[i].inputs
      ELSE file.components[i].outputs)[peg.peg_index + 1] :
        i \in {j \in file_peg_components(file, peg) :
                 /\ peg.peg_index >= 0
                 /\ peg.peg_index < Len(IF peg.peg_type = "Input"
                                        THEN file.components[j].inputs
                                        ELSE file.components[j].outputs)}}
\* The circuit state ids a file uses
file_state_ids(file) ==
    UNION {{file.components[i].inputs[k] : k \in DOMAIN file.components[i].inputs}
           \cup {file.components[i].outputs[k] : k \in DOMAIN file.components[i].outputs} :
              i \in DOMAIN file.components}
    \cup {file.wires[w].circuit_state_id : w \in DOMAIN file.wires}
\* A wire end is an input peg whose net is not the net the wire declares
\* (the condition of the assert! in insert_wire)
file_wire_net_mismatch(file, wire, peg, other) ==
    /\ other.peg_type # "Output"
    /\ file_peg_states(file, peg) # {}
    /\ wire.circuit_state_id \notin file_peg_states(file, peg)
\* A file with a dangling reference or a wire that breaks the net-id constraint
FileMalformed(file) ==
    \/ \E i \in DOMAIN file.components :
          /\ file.components[i].parent # 0
          /\ \A j \in 1..(i - 1) : file.components[j].address # file.components[i].parent
    \/ \E w \in DOMAIN file.wires :
          \/ file_peg_states(file, file.wires[w].start_peg) = {}
          \/ file_peg_states(file, file.wires[w].end_peg) = {}
          \/ file_wire_net_mismatch(file, file.wires[w], file.wires[w].start_peg,
                                    file.wires[w].end_peg)
          \/ file_wire_net_mismatch(file, file.wires[w], file.wires[w].end_peg,
                                    file.wires[w].start_peg)
    \/ \E n \in file_state_ids(file) :
          n < 0 \/ n >= BitsPerByte * Len(file.circuit_states.bytes)
\* The state is the outcome of building a sandbox from the file
LoadedFrom(file) ==
    /\ loaded
    /\ edits = Len(file.components) + Len(file.wires)
    /\ Holds(Sandbox_from_file(file))

\* C21: building a Sandbox from a file with a dangling reference (parent or
\* wire peg naming an address not defined, peg index out of range, circuit
\* state id not below 8 * |circuit_states|) or with a wire whose declared
\* net id breaks the net-id constraint ends with the InvalidSave error and
\* with no other outcome.
C21_LoadInvalidSave ==
    \A file \in Files : (LoadedFrom(file) /\ FileMalformed(file)) => panicked = "InvalidSave"

\* The caller read the stream with the reader of one version, left the
\* file as it was read and wrote it
WroteBack ==
    /\ codec.phase = "written"
    /\ codec.reader \in {"v5", "v6"}
    /\ ~codec.edited
    /\ ~codec.migrated
\* The bytes the reader consumed
Consumed == SubSeq(codec.stream, 1, codec.pos - 1)

\* The position in the written stream of the field custom_data_len of the
\* k-th component of a file: everything up to that component, less the
\* field and the custom data after it
custom_data_len_at(file, k) ==
    Len(write_wires(Writer_new, [file EXCEPT !.components = SubSeq(@, 1, k),
                                             !.wires = <<>>]).bytes)
        - 3 - (IF file.components[k].custom_data = None THEN 0
               ELSE Len(Unwrap(file.components[k].custom_data)))
\* No field custom_data_len of the stream that was read holds a negative
\* number other than -1
CustomDataLenCanonical ==
    \A k \in DOMAIN Unwrap(codec.file).components :
        i32_from_le_bytes(codec.stream, custom_data_len_at(Unwrap(codec.file), k)) >= -1

\* C22 as stated: for V5 and for V6, writing the file that read returned
\* for an accepted byte stream produces that byte stream again, byte for
\* byte.
C22_WriteReadRoundTrip ==
    WroteBack => (codec.out.err = "" /\ codec.out.bytes = Consumed)
\* C22, amended: for V5 and for V6, writing the file that read returned
\* for an accepted byte stream in which no custom-data length is below -1
\* produces that byte stream again, byte for byte.
C22_CanonicalRoundTrip ==
    (WroteBack /\ CustomDataLenCanonical) =>
        (codec.out.err = "" /\ codec.out.bytes = Consumed)
\* A stream with a mod, a component type, a component without custom data
\* and one with empty custom data was read and written back
C22_Witness ==
    /\ WroteBack
    /\ CustomDataLenCanonical
    /\ Len(Unwrap(codec.file).mods) = 1
    /\ Len(Unwrap(codec.file).component_types) = 1
    /\ \E k \in DOMAIN Unwrap(codec.file).components :
          Unwrap(codec.file).components[k].custom_data = None
    /\ \E k \in DOMAIN Unwrap(codec.file).components :
          Unwrap(codec.file).components[k].custom_data = Some(<<>>)
    /\ codec.out.bytes = codec.stream
\* A stream in the subassembly format was read and written back
C22_WitnessSubassembly ==
    /\ WroteBack
    /\ CustomDataLenCanonical
    /\ Unwrap(codec.file).circuit_states.format = "SubassemblyFormat"
    /\ codec.out.bytes = codec.stream

\* The layout of the stream written for a file.  A file with only its
\* first m mods, t component types, c components and w wires:
truncated(file, m, t, c, w) ==
    [file EXCEPT !.mods = SubSeq(@, 1, m), !.component_types = SubSeq(@, 1, t),
                 !.components = SubSeq(@, 1, c), !.wires = SubSeq(@, 1, w)]
written_len(file) == Len(write_wires(Writer_new, file).bytes)
\* The position of the last byte of the m-th mod, t-th component type,
\* c-th component, w-th wire (of the field before the first one for 0)
end_of_mod(file, m) == written_len(truncated(file, m, 0, 0, 0)) - 4
end_of_component_type(file, t) == written_len(truncated(file, Len(file.mods), t, 0, 0))
end_of_component(file, c) ==
    written_len(truncated(file, Len(file.mods), Len(file.component_types), c, 0))
end_of_wire(file, w) ==
    written_len(truncated(file, Len(file.mods), Len(file.component_types),
                          Len(file.components), w))
\* The positions of the most significant byte of every count: of
\* components, wires and mods, of the bytes of each mod id, of component
\* types, of the bytes of each text id, of the inputs and of the outputs
\* of each component, of the circuit states
CountSignBytes(file) ==
    {end_of_mod(file, 0) - 8, end_of_mod(file, 0) - 4, end_of_mod(file, 0)}
    \cup {end_of_mod(file, m - 1) + 4 : m \in DOMAIN file.mods}
    \cup {end_of_mod(file, Len(file.mods)) + 4}
    \cup {end_of_component_type(file, t - 1) + 6 : t \in DOMAIN file.component_types}
    \cup {end_of_component(file, c - 1) + 42 : c \in DOMAIN file.components}
    \cup {custom_data_len_at(file, c) - 1 - 4 * Len(file.components[c].outputs) :
             c \in DOMAIN file.components}
    \cup {end_of_wire(file, Len(file.wires)) + 4}
\* The positions of the peg-type bytes: two in each wire
PegKindBytes(file) ==
    UNION {{end_of_wire(file, w - 1) + 1, end_of_wire(file, w - 1) + 10} :
              w \in DOMAIN file.wires}
\* The position of the save-type byte: after the header, the version byte
\* and the game version
SaveTypeByte == HeaderLen + 16 + 1
\* The streams that differ from s in one byte, at a position of P, where
\* they have a byte of B
Replaced(s, P, B) == {[s EXCEPT ![p] = b] : p \in P, b \in B} \ {s}
Encoded(file) == BlotterFile_write(file).bytes
AllCodecFiles == CodecFiles(V5_SAVE_VERSION) \cup CodecFiles(V6_SAVE_VERSION)
WrongHeaderStreams ==
    UNION {Replaced(Encoded(f), 1..Len(SAVE_HEADER), MutationBytes) : f \in AllCodecFiles}
WrongFooterStreams ==
    UNION {Replaced(Encoded(f), (Len(Encoded(f)) - Len(SAVE_FOOTER) + 1)..Len(Encoded(f)),
                    MutationBytes) : f \in AllCodecFiles}
NegativeCountStreams ==
    UNION {Replaced(Encoded(f), CountSignBytes(f), {254}) : f \in AllCodecFiles}
WrongPegKindStreams ==
    UNION {Replaced(Encoded(f), PegKindBytes(f), MutationBytes \ {0, 1}) : f \in AllCodecFiles}
WrongSaveTypeStreams ==
    UNION {Replaced(Encoded(f), {SaveTypeByte}, MutationBytes \ {1, 2}) : f \in AllCodecFiles}
\* The pairs of a stream whose custom-data length of one component (one
\* that is followed by no data bytes) was made negative, and the file of
\* the stream with no custom data in that component
NegativeCustomDataLenCases ==
    UNION {{<<[Encoded(f) EXCEPT ![custom_data_len_at(f, c) + 3] = 254],
              [f EXCEPT !.components[c].custom_data = None]>> :
               c \in {k \in DOMAIN f.components :
                         f.components[k].custom_data \in {None, Some(<<>>)}}} :
           f \in AllCodecFiles}
\* The caller read a stream with the reader of the version of the stream
ReadOwnVersion ==
    /\ codec.phase = "read"
    /\ \/ codec.reader = "v5" /\ codec.stream[HeaderLen] = V5_SAVE_VERSION
       \/ codec.reader = "v6" /\ codec.stream[HeaderLen] = V6_SAVE_VERSION

\* C23: reading a stream with a wrong header or footer, a negative count
\* (components, wires, mods, component types, inputs, outputs, circuit
\* states, the bytes of a string), a peg-type byte other than 0 and 1 or a
\* save-type byte other than 1 and 2 returns InvalidSave and no file; a
\* negative custom-data length is no error and reads as no custom data.
C23_InvalidSave ==
    ReadOwnVersion =>
        /\ codec.stream \in WrongHeaderStreams \cup WrongFooterStreams
                            \cup NegativeCountStreams \cup WrongPegKindStreams
                            \cup WrongSaveTypeStreams
              => (codec.err = "InvalidSave" /\ codec.original = None)
        /\ \A case \in NegativeCustomDataLenCases :
              codec.stream = case[1] => (codec.err = "" /\ codec.original = Some(case[2]))
\* A stream with a negative number of inputs in its second component was
\* read
C23_Witness ==
    /\ ReadOwnVersion
    /\ codec.err = "InvalidSave"
    /\ codec.stream \in NegativeCountStreams
    /\ \E f \in AllCodecFiles :
          /\ Len(f.components) = 2
          /\ codec.stream = [Encoded(f) EXCEPT ![end_of_component(f, 1) + 42] = 254]

\* The save type of a file does not go with the format of its circuit
\* states
Mismatched(file) == (file.save_type = "World") # (file.circuit_states.format = "WorldFormat")
\* The number of bytes of the circuit-state block of a file: the count and
\* a byte per byte or an i32 per on-state
circuit_states_len(circuit_states) ==
    IF circuit_states.format = "WorldFormat"
    THEN 4 + Len(circuit_states.circuit_states)
    ELSE 4 + 4 * Len(circuit_states.on_states)
\* The bytes written end with the footer
EndsWithFooter(bytes) ==
    /\ Len(bytes) >= Len(SAVE_FOOTER)
    /\ SubSeq(bytes, Len(bytes) - Len(SAVE_FOOTER) + 1, Len(bytes)) = SAVE_FOOTER

\* C24: write of a file whose save_type does not go with the format of
\* its circuit_states returns InvalidSave after it wrote everything before
\* the circuit-state block and neither that block nor the footer; write of
\* a file whose save_type goes with the format succeeds and its bytes end
\* with the footer.
C24_WriteMismatch ==
    codec.phase = "written" =>
        IF Mismatched(Unwrap(codec.file))
        THEN /\ codec.out.err = "InvalidSave"
             /\ Len(codec.out.bytes) = Len(Consumed) - Len(SAVE_FOOTER)
                                          - circuit_states_len(Unwrap(codec.file).circuit_states)
             /\ ~EndsWithFooter(codec.out.bytes)
             /\ (~codec.migrated /\ CustomDataLenCanonical) =>
                   \A k \in DOMAIN codec.out.bytes :
                       k # SaveTypeByte => codec.out.bytes[k] = codec.stream[k]
        ELSE codec.out.err = "" /\ EndsWithFooter(codec.out.bytes)
\* A file with a wire, read as a world and made a subassembly, was written
C24_Witness ==
    /\ codec.phase = "written"
    /\ codec.edited
    /\ Unwrap(codec.file).save_type = "Subassembly"
    /\ Unwrap(codec.file).circuit_states.format = "WorldFormat"
    /\ Unwrap(codec.file).wires # <<>>
    /\ codec.out.err = "InvalidSave"

\* The caller read, with the reader of one version, a stream that starts
\* with the header and a version byte
ReadVersionByte ==
    /\ codec.phase = "read"
    /\ codec.reader \in {"v5", "v6"}
    /\ Len(codec.stream) >= HeaderLen
    /\ SubSeq(codec.stream, 1, Len(SAVE_HEADER)) = SAVE_HEADER
\* The version a reader supports
SupportedVersion == IF codec.reader = "v5" THEN V5_SAVE_VERSION ELSE V6_SAVE_VERSION

\* C25: reading a stream with the right header and a version byte v that
\* the reader does not support returns IncompatibleVersion(v) with exactly
\* that byte and reads nothing after it; a file read from a stream with a
\* supported version byte is a file of that version.
C25_IncompatibleVersion ==
    ReadVersionByte =>
        IF codec.stream[HeaderLen] # SupportedVersion
        THEN /\ codec.err = "IncompatibleVersion"
             /\ codec.file = Some(codec.stream[HeaderLen])
             /\ codec.pos = HeaderLen + 1
        ELSE /\ codec.err # "IncompatibleVersion"
             /\ codec.err = "" => Unwrap(codec.original).version = codec.stream[HeaderLen]
\* A stream that ends after a version byte the reader does not support was
\* read
C25_Witness ==
    /\ ReadVersionByte
    /\ Len(codec.stream) = HeaderLen
    /\ codec.stream[HeaderLen] = 254
    /\ codec.err = "IncompatibleVersion"
    /\ codec.file = Some(254)

\* The caller migrated the file it read and did nothing else to it
Migrated ==
    /\ codec.phase = "read"
    /\ codec.migrated
    /\ ~codec.edited
\* Two components are equal in every field but position
SameButPosition(a, b) == [a EXCEPT !.position = <<>>] = [b EXCEPT !.position = <<>>]

\* C26: migrating a V5 file gives a V6 file that differs from it only in
\* the position of each component; migrating a V6 file returns it
\* unchanged; migrating a migrated file returns it unchanged.
C26_Migrate ==
    Migrated =>
        /\ Unwrap(codec.file).version = V6_SAVE_VERSION
        /\ [Unwrap(codec.file) EXCEPT !.components = <<>>]
              = [Unwrap(codec.original) EXCEPT !.components = <<>>,
                                               !.version = V6_SAVE_VERSION]
        /\ Len(Unwrap(codec.file).components) = Len(Unwrap(codec.original).components)
        /\ \A k \in DOMAIN Unwrap(codec.file).components :
              SameButPosition(Unwrap(codec.file).components[k],
                              Unwrap(codec.original).components[k])
        /\ Unwrap(codec.original).version = V6_SAVE_VERSION => codec.file = codec.original
        /\ migrate(Unwrap(codec.file)) = Unwrap(codec.file)
\* A V5 file with a component at (1.0, -1.5, 0.0) that has custom data was
\* migrated: the component is at (1000, -1500, 0)
C26_Witness ==
    /\ Migrated
    /\ Unwrap(codec.original).version = V5_SAVE_VERSION
    /\ \E k \in DOMAIN Unwrap(codec.file).components :
          /\ Unwrap(codec.original).components[k].position = <<One, MinusOneAndHalf, 0>>
          /\ Unwrap(codec.original).components[k].custom_data # None
          /\ Unwrap(codec.file).components[k].position = <<1000, -1500, 0>>

\* The net id of a live peg of the sandbox S
net_of(S, addr) == Unwrap(get_peg(S, addr)).net_id
\* a and b are live input pegs that no wire joins, in different nets
MergeCase(a, b) ==
    /\ a.peg_type = "Input"
    /\ b.peg_type = "Input"
    /\ a \in LivePegAddresses
    /\ b \in LivePegAddresses
    /\ peg_info(a).wires \cap peg_info(b).wires = {}
    /\ peg_info(a).net_id # peg_info(b).net_id
\* add_wire(a, b) took the sandbox S to the result r by merging the nets
\* of a and b
Merged(S, r, a, b) ==
    /\ r.sandbox.panicked = ""
    /\ r.ok
    /\ Len(r.sandbox.nets) = Len(S.nets) - 1
    /\ net_of(r.sandbox, b) = net_of(r.sandbox, a)
    /\ \A w \in r.wire_ids :
          r.sandbox.wires.entries[w + 1].item.net_id = net_of(r.sandbox, a)
    /\ \A p \in LivePegAddresses :
          net_of(S, p) \in {net_of(S, a), net_of(S, b)}
             => net_of(r.sandbox, p) = net_of(r.sandbox, a)
    /\ \A w \in LiveWires :
          wire_info(w).net_id \in {net_of(S, a), net_of(S, b)}
             => r.sandbox.wires.entries[w + 1].item.net_id = net_of(r.sandbox, a)
    /\ \A p, q \in LivePegAddresses :
          {net_of(S, p), net_of(S, q)} \cap {net_of(S, a), net_of(S, b)} = {}
             => ((net_of(S, p) = net_of(S, q))
                    <=> (net_of(r.sandbox, p) = net_of(r.sandbox, q)))
    /\ net_of(r.sandbox, a) < Len(r.sandbox.nets)
    /\ r.sandbox.nets[net_of(r.sandbox, a) + 1].pegs
          = S.nets[net_of(S, a) + 1].pegs \cup S.nets[net_of(S, b) + 1].pegs

\* C27: from every reachable state, add_wire(a, b) with a and b live input
\* pegs not joined by a wire and in different nets merges the two nets,
\* wherever they are in the dense store: a, b, the new wire and every peg
\* and wire of both nets get one net id, the surviving net holds the pegs
\* of both, there is one net less, and the pegs of the other nets keep
\* their partition.
C27_AddWireMerges ==
    FromNew => \A a, b \in PegAddresses : MergeCase(a, b) => Merged(SB, add_wire(SB, a, b), a, b)

\* a and b are live pegs, exactly one of them an output
OutputCase(a, b) ==
    /\ a \in LivePegAddresses
    /\ b \in LivePegAddresses
    /\ a.peg_type # b.peg_type
\* The net id of the output peg among a and b in the sandbox S
output_net(S, a, b) == IF a.peg_type = "Output" THEN net_of(S, a) ELSE net_of(S, b)
\* add_wire(a, b) took the sandbox S to the result r with a wire in the
\* output's net and nothing else changed in the nets
JoinedToOutput(S, r, a, b) ==
    /\ r.sandbox.panicked = ""
    /\ r.ok
    /\ \A w \in r.wire_ids :
          /\ ObjectStore_has(r.sandbox.wires, w)
          /\ r.sandbox.wires.entries[w + 1].item.net_id = output_net(S, a, b)
    /\ Len(r.sandbox.nets) = Len(S.nets)
    /\ \A p \in LivePegAddresses : net_of(r.sandbox, p) = net_of(S, p)
    /\ \A w \in LiveWires : r.sandbox.wires.entries[w + 1].item.net_id = wire_info(w).net_id

remaining_wires(n, id) == {v \in LiveWires \ {id} : wire_info(v).net_id = n}
\* The pegs one wire of ws away from the pegs P, and P
ReachStep(ws, P) ==
    P \cup {wire_info(v).b : v \in {u \in ws : wire_info(u).a \in P}}
      \cup {wire_info(v).a : v \in {u \in ws : wire_info(u).b \in P}}
\* The pegs joined to the pegs P by a path of wires of ws
RECURSIVE Reach(_, _)
Reach(ws, P) == IF ReachStep(ws, P) = P THEN P ELSE Reach(ws, ReachStep(ws, P))
\* The wires of ws at the pegs P
wires_among(ws, P) == {v \in ws : wire_info(v).a \in P \/ wire_info(v).b \in P}
\* The live wire id joins two distinct live input pegs of one net
SplitCase(id) ==
    /\ id \in LiveWires
    /\ wire_info(id).a \in LivePegAddresses
    /\ wire_info(id).b \in LivePegAddresses
    /\ wire_info(id).a # wire_info(id).b
    /\ wire_info(id).a.peg_type = "Input"
    /\ wire_info(id).b.peg_type = "Input"
    /\ peg_info(wire_info(id).a).net_id = peg_info(wire_info(id).b).net_id
    /\ wire_info(id).net_id = peg_info(wire_info(id).a).net_id
\* remove_wire took the sandbox to T and no peg or wire changed net
NetsKept(T, id) ==
    /\ T.panicked = ""
    /\ Len(T.nets) = Len(nets)
    /\ Len(T.net_states) = Len(net_states)
    /\ \A p \in LivePegAddresses : net_of(T, p) = peg_info(p).net_id
    /\ \A v \in LiveWires \ {id} : T.wires.entries[v + 1].item.net_id = wire_info(v).net_id
\* remove_wire took the sandbox to T and the pegs P with the wires ws at
\* them went from the net old to one fresh net
NetSplit(T, id, old, P, ws) ==
    /\ T.panicked = ""
    /\ Len(T.nets) = Len(nets) + 1
    /\ Len(T.net_states) = Len(net_states) + 1
    /\ \A p \in LivePegAddresses :
          net_of(T, p) = IF p \in P THEN Len(nets) ELSE peg_info(p).net_id
    /\ \A v \in LiveWires \ {id} :
          T.wires.entries[v + 1].item.net_id
             = IF v \in ws THEN Len(nets) ELSE wire_info(v).net_id
    /\ T.nets[Len(nets) + 1] = [wires |-> ws, pegs |-> P]
    /\ T.nets[old + 1] = [wires |-> (nets[old + 1].wires \ {id}) \ ws,
                          pegs |-> nets[old + 1].pegs \ P]
\* remove_wire(id) took the sandbox to T as the reachability of b from a
\* over the wires rest commands
SplitAsReachable(T, id, a, b, old, rest) ==
    IF b \in Reach(rest, {a})
    THEN NetsKept(T, id)
    ELSE NetSplit(T, id, old, Reach(rest, {a}), wires_among(rest, Reach(rest, {a})))

\* C29: remove_wire of a live wire between two live input pegs a and b of
\* one net: when b is still reachable from a over the remaining wires of
\* the net, no peg or wire changes net and the number of nets is unchanged;
\* otherwise one fresh net gets exactly the pegs and wires of the old net
\* reachable from a, in the net_ids and in the member sets of the nets, b's
\* side keeps the old net, and the number of nets and the length of the
\* bitset grow by one.
C29_RemoveWireSplits ==
    FromNew => \A id \in WireIds :
        SplitCase(id) =>
            SplitAsReachable(remove_wire(SB, id), id, wire_info(id).a, wire_info(id).b,
                             wire_info(id).net_id, remaining_wires(wire_info(id).net_id, id))

\* The live wire id joins two live pegs with different net_ids
SpanCase(id) ==
    /\ id \in LiveWires
    /\ wire_info(id).a \in LivePegAddresses
    /\ wire_info(id).b \in LivePegAddresses
    /\ peg_info(wire_info(id).a).net_id # peg_info(wire_info(id).b).net_id

\* C30: in every reachable state a live wire whose two live endpoint pegs
\* have different net_ids has exactly one output peg as endpoint (the
\* assertion of check_split holds), and remove_wire of it changes the
\* net_id of no peg and of no other wire and leaves the number of nets
\* unchanged.
C30_RemoveSpanningWire ==
    panicked = "" => \A id \in WireIds :
        SpanCase(id) =>
            /\ wire_info(id).a.peg_type # wire_info(id).b.peg_type
            /\ NetsKept(remove_wire(SB, id), id)

\* The parents add_component is called with: none or a live component
LiveParents == {None} \cup {Some(c) : c \in LiveComponents}
\* The pegs of the component id of the sandbox S
new_pegs(S, id) ==
    {PegAddress(id, "Input", k - 1) : k \in DOMAIN S.components.entries[id + 1].item.inputs}
    \cup {PegAddress(id, "Output", k - 1) :
             k \in DOMAIN S.components.entries[id + 1].item.outputs}
\* add_component with i inputs and o outputs took the sandbox to the result
\* r with a net of its own for each new peg and nothing else changed in
\* the nets
AddedNets(r, i, o) ==
    /\ r.sandbox.panicked = ""
    /\ ObjectStore_has(r.sandbox.components, r.id)
    /\ Cardinality(new_pegs(r.sandbox, r.id)) = i + o
    /\ Len(r.sandbox.nets) = Len(nets) + i + o
    /\ Len(r.sandbox.net_states) = Len(net_states) + i + o
    /\ \A p \in new_pegs(r.sandbox, r.id) :
          /\ net_of(r.sandbox, p) >= Len(nets)
          /\ net_of(r.sandbox, p) < Len(r.sandbox.nets)
          /\ r.sandbox.nets[net_of(r.sandbox, p) + 1] = [wires |-> {}, pegs |-> {p}]
          /\ r.sandbox.net_states[net_of(r.sandbox, p) + 1] = FALSE
    /\ SubSeq(r.sandbox.nets, 1, Len(nets)) = nets
    /\ SubSeq(r.sandbox.net_states, 1, Len(net_states)) = net_states
    /\ \A p \in LivePegAddresses : net_of(r.sandbox, p) = peg_info(p).net_id
    /\ r.sandbox.wires = wires

NetStoreAgrees(T) ==
    \A n \in DOMAIN T.nets :
        /\ T.nets[n].pegs =
              {addr \in PegAddresses :
                  get_peg(T, addr) # None /\ net_of(T, addr) = n - 1}
        /\ T.nets[n].wires =
              {w \in ObjectStore_live(T.wires) : T.wires.entries[w + 1].item.net_id = n - 1}
        /\ size(T.nets[n]) > 0

\* C32: remove_component deletes every peg of every removed component from
\* the net it belongs to at that moment, removes a net exactly when its
\* size has dropped to zero, and after each swap-rename every live peg and
\* wire of the moved net refers to its new index: from a sandbox whose
\* nets agree with its pegs and wires the call returns a sandbox whose
\* nets agree with its pegs and wires.
C32_RemoveComponentNets ==
    (FromNew /\ NetStoreAgrees(SB)) =>
        \A c \in LiveComponents, rank \in ChildOrders :
            /\ remove_component(SB, c, rank).panicked = ""
            /\ NetStoreAgrees(remove_component(SB, c, rank))

\* The index that the net at index m has after the net at index n # m of
\* a store of len nets was swap-removed
renamed_index(m, n, len) == IF m = len - 1 THEN n ELSE m
\* remove_net(n) returned r: the nets other than n are in the store at
\* their renamed index, with the bit they had
BitsFollowNets(r, n) ==
    /\ Len(r.sandbox.nets) = Len(nets) - 1
    /\ Len(r.sandbox.net_states) = Len(net_states) - 1
    /\ \A m \in (0..(Len(nets) - 1)) \ {n} :
          /\ r.sandbox.nets[renamed_index(m, n, Len(nets)) + 1].wires = nets[m + 1].wires
          /\ r.sandbox.nets[renamed_index(m, n, Len(nets)) + 1].pegs = nets[m + 1].pegs
          /\ r.sandbox.net_states[renamed_index(m, n, Len(nets)) + 1] = net_states[m + 1]

\* C33: in a sandbox loaded from a file with any bits or made new, after
\* any edits, every net that survives a remove_net that returns keeps its
\* bit: the bit at the index the net has after the swap-rename is the bit
\* it had at its index before, and the bit of a net that did not move is
\* unchanged.
C33_NetStatesFollow ==
    (panicked = "" /\ Len(nets) = Len(net_states)) =>
        \A n \in 0..(Len(nets) - 1) :
            remove_net(SB, n).sandbox.panicked = "" => BitsFollowNets(remove_net(SB, n), n)
\* In a sandbox loaded from a file whose nets 0 and 2 are on, net 0 was
\* removed and the last net, which is off, took its index; net 2 is on
C33_Witness ==
    /\ loaded
    /\ panicked = ""
    /\ Len(nets) = BitsPerByte - 1
    /\ net_states = [k \in 1..(BitsPerByte - 1) |-> k = 3]

\* The indices that the free list of the store visits from the index at,
\* in order, ending after an occupied entry or after fuel entries
RECURSIVE free_list(_, _, _)
free_list(store, at, fuel) ==
    IF at < 0 \/ at >= Len(store.entries) \/ fuel = 0 THEN <<>>
    ELSE IF store.entries[at + 1].tag = "Occupied" THEN <<at>>
    ELSE <<at>> \o free_list(store, store.entries[at + 1].next_vacant, fuel - 1)
\* The indices of the vacant entries of the store
vacant(store) ==
    {a \in 0..(Len(store.entries) - 1) : store.entries[a + 1].tag = "Vacant"}
\* The free list visits exactly the vacant entries, each once
FreeListExact(store) ==
    /\ Len(free_list(store, store.first_vacant, Len(store.entries) + 1))
          = Cardinality(vacant(store))
    /\ {free_list(store, store.first_vacant, Len(store.entries) + 1)[k] :
           k \in 1..Cardinality(vacant(store))} = vacant(store)
\* insert puts the item at first_vacant when the store has a vacant entry
\* and at the end when it has none, and fills the entry just vacated
InsertContract(store, item) ==
    /\ ~ObjectStore_insert(store, item).unreachable
    /\ ObjectStore_get(ObjectStore_insert(store, item).store,
                       ObjectStore_insert(store, item).address) = Some(item)
    /\ (vacant(store) # {}) => ObjectStore_insert(store, item).address = store.first_vacant
    /\ (vacant(store) = {}) =>
          /\ ObjectStore_insert(store, item).address = Len(store.entries)
          /\ Len(ObjectStore_insert(store, item).store.entries) = Len(store.entries) + 1
    /\ (vacant(store) # {}) =>
          Len(ObjectStore_insert(store, item).store.entries) = Len(store.entries)
    /\ \A a \in ObjectStore_live(store) :
          /\ ObjectStore_insert(ObjectStore_remove(store, a).store, item).address = a
          /\ ObjectStore_insert(store, item).store.entries[a + 1] = store.entries[a + 1]
    /\ FreeListExact(ObjectStore_insert(store, item).store)

\* C34: ObjectStore::insert stores the item at the most recently vacated
\* index when the store has a vacant entry and appends it at
\* entries.len() only when it has none; after any inserts and removes the
\* free list from first_vacant visits exactly the vacant entries, each
\* once, and never an occupied one.
C34_FreeList ==
    /\ FreeListExact(components)
    /\ FreeListExact(wires)
    /\ InsertContract(components, "item")
    /\ InsertContract(wires, "item")
\* Two components were removed, the one at index 0 last, and one is live:
\* the free list goes from index 0 to the other vacant entry
C34_Witness ==
    /\ Cardinality(vacant(components)) = 2
    /\ LiveComponents # {}
    /\ components.first_vacant = 0
    /\ components.entries[1].next_vacant # USIZE_MAX

\* The live pegs a and b are not both outputs and no wire joins them: an
\* insert_wire between them reaches the check of the declared net id
DeclaredCase(a, b) ==
    /\ ~(a.peg_type = "Output" /\ b.peg_type = "Output")
    /\ peg_info(a).wires \cap peg_info(b).wires = {}
\* Every endpoint of a, b that is not an output peg has the net id d
EndpointsOnNet(a, b, d) ==
    /\ a.peg_type # "Output" => peg_info(a).net_id = d
    /\ b.peg_type # "Output" => peg_info(b).net_id = d
\* The result r of insert_wire is Ok and no assertion failed
Accepted(r) == r.sandbox.panicked = "" /\ r.ok

\* C35: a wire loaded with declared net id d is accepted exactly when each
\* endpoint that is not an output peg has net_id d; an output endpoint
\* imposes no constraint, so a wire from an output to an input on net d is
\* accepted whatever the output's net is, and a wire with a non-output
\* endpoint on another net is rejected.
C35_DeclaredNet ==
    panicked = "" =>
        \A a \in LivePegAddresses, b \in LivePegAddresses, d \in 0..(Len(nets) - 1) :
            DeclaredCase(a, b) =>
                (Accepted(insert_wire(SB, a, b, Some(d))) <=> EndpointsOnNet(a, b, d))

\* The newest-version reader returned a file whose circuit states are
\* SubassemblyFormat
ReadSubassembly ==
    /\ codec.phase = "read"
    /\ codec.reader = "v6"
    /\ codec.err = ""
    /\ Unwrap(codec.file).version = V6_SAVE_VERSION
    /\ Unwrap(codec.file).circuit_states.format = "SubassemblyFormat"
\* The circuit state ids of the pegs and wires of a file that was read
read_state_ids(file) ==
    UNION {{file.components[c].inputs[k] : k \in DOMAIN file.components[c].inputs}
           \cup {file.components[c].outputs[k] : k \in DOMAIN file.components[c].outputs} :
              c \in DOMAIN file.components}
    \cup {file.wires[w].circuit_state_id : w \in DOMAIN file.wires}
\* The sandbox T has the nets 0 .. max id of the file, those of on_states on
SubassemblyNets(T, file) ==
    /\ T.panicked = ""
    /\ \A n \in read_state_ids(file) : n < Len(T.nets)
    /\ \E n \in read_state_ids(file) : n = Len(T.nets) - 1
    /\ Len(T.net_states) = Len(T.nets)
    /\ \A n \in 0..(Len(T.nets) - 1) :
          T.net_states[n + 1] <=>
              \E k \in DOMAIN file.circuit_states.on_states :
                  file.circuit_states.on_states[k] = n

\* C36: building a Sandbox from a newest-version file whose circuit states
\* are SubassemblyFormat completes and yields a sandbox whose nets are
\* 0 .. max(circuit_state_id), with exactly the nets of on_states on.
C36_LoadSubassembly ==
    ReadSubassembly =>
        SubassemblyNets(Sandbox_from_file(Unwrap(codec.file)), Unwrap(codec.file))

\* C37: starting from Sandbox::new(), every call of add_component (parent
\* none or live), add_wire, remove_wire and remove_component, with any
\* arguments and in any order, returns without panicking: every unwrap and
\* assert of make_net, remove_net, merge_nets, check_split, insert_wire and
\* remove_component succeeds in every reachable state.
C37_NoPanic == loaded \/ panicked = ""

\* Every wire id that the result r of add_wire(a, b) may hold names a wire
\* that is live in the resulting sandbox and joins a and b
ReturnsWireBetween(r, a, b) ==
    \A w \in r.wire_ids :
        /\ ObjectStore_has(r.sandbox.wires, w)
        /\ {r.sandbox.wires.entries[w + 1].item.a, r.sandbox.wires.entries[w + 1].item.b}
              = {a, b}

\* C38: whenever add_wire(a, b, r) returns Ok(w), w names a live wire whose
\* endpoint pair is exactly {a, b}, also when a and b are the same input
\* peg and when a or b already carries wires to other pegs.
C38_AddWireReturns ==
    panicked = "" =>
        \A a \in LivePegAddresses, b \in LivePegAddresses :
            Accepted(add_wire(SB, a, b)) => ReturnsWireBetween(add_wire(SB, a, b), a, b)

\* The conversion returned the file f with one Component record for each
\* live component, one Wire record for each live wire, and wire pegs that
\* name components of the file
FileComplete(f) ==
    /\ f.status = ""
    /\ Len(f.file.components) = Cardinality(LiveComponents)
    /\ \A c \in LiveComponents :
          /\ c \in DOMAIN f.ser.component_id_map
          /\ Cardinality({i \in DOMAIN f.file.components :
                             f.file.components[i].address = f.ser.component_id_map[c]}) = 1
    /\ Len(f.file.wires) = Cardinality(LiveWires)
    /\ \A w \in DOMAIN f.file.wires :
          /\ file_peg_components(f.file, f.file.wires[w].start_peg) # {}
          /\ file_peg_components(f.file, f.file.wires[w].end_peg) # {}

\* C39: for every sandbox reachable by add_component, add_wire, remove_wire
\* and remove_component, also after root components were removed and after
\* components were added following removals, converting it to a file
\* completes and the file holds exactly one Component record per live
\* component and one Wire record per live wire, every wire's peg addresses
\* naming component addresses present in the file.
C39_FileComplete ==
    FromNew => \A rank \in Ranks : FileComplete(BlotterFile_from(SB, rank))

\* C40: after any add_component calls with any type strings, on a sandbox
\* made by Sandbox::new() or loaded from a file whose type table is
\* injective, the component-type mapping stays injective: two different
\* text ids never map to the same u16.
C40_TypesInjective ==
    panicked = "" =>
        \A s, u \in DOMAIN component_types :
            component_types[s] = component_types[u] => s = u
====
